---- MODULE Spec2Model ----
(***************************************************************************)
(* Model of the scan / cache / merge engine of dcc-scout.py (DccScout).    *)
(*                                                                         *)
(* Targets are strings in the program; the merge step counts "/" in them   *)
(* and tests startswith(target + "/"), so a target is modelled as the      *)
(* sequence of its characters.                                             *)
(***************************************************************************)
EXTENDS Integers, Sequences, FiniteSets, TLC

VARIABLES
    enabled,      \* self.config["phases"]: key -> bool (a missing key: FALSE)
    cache,        \* state/<phase>.json, one file per phase name
    scanfile,     \* scan.json, the final report
    snoozeStore,  \* targets with an unexpired entry in snoozed.json
    snoozed,      \* self.snoozed of the running scout process
    pc,           \* position of the running process in main()
    idx,          \* run_all: number of config["phases"] entries iterated
    force,        \* args.force of the running process
    last,         \* the run_phase call made by the latest step, if any
    resumed,      \* the phases completed by the run_all that was interrupted
                  \* right before the running process, if any
    env,          \* what a helper under study reads: files, clock, arguments
    out           \* what that helper returned or raised

vars == <<enabled, cache, scanfile, snoozeStore, snoozed, pc, idx, force,
          last, resumed, env, out>>

---------------------------------------------------------------------------
(* Bounds *)

\* longest concatenation of cached findings drawn for the merge engine
MaxFindings == 3
\* largest size_bytes of a finding
MaxSize == 2
\* number of phases (the first ones of the phase order) that the explored
\* configurations enable, the explored command lines request and the
\* explored cache directories hold files of
MaxPhasesUsed == 2
\* most candidates one scanner run discovers
MaxScanLen == 1

---------------------------------------------------------------------------
(* Phases *)

\* the phase list of merge_results, which is also the key order of
\* DEFAULT_CONFIG["phases"] and the key set of phase_methods
PhaseOrder ==
    << "large_files", "build_artifacts", "git_repos", "ollama_models",
       "huggingface_models", "applications", "library_leftovers",
       "caches", "logs" >>

Phases == { PhaseOrder[i] : i \in 1..Len(PhaseOrder) }

\* a phase name no scanner is registered for
UnknownPhase == "bogus"

PhaseNames == Phases \cup {UnknownPhase}

\* the keys of config["phases"] in dict order: those of DEFAULT_CONFIG, then
\* a key that only the user's file has
ConfigOrder == PhaseOrder \o << UnknownPhase >>

---------------------------------------------------------------------------
(* Targets and findings *)

Slash == "/"

TProj      == << "~", "/", "p" >>
TProj2     == << "~", "/", "p", "2" >>
TChild     == << "~", "/", "p", "/", "n" >>
TGrand     == << "~", "/", "p", "/", "n", "/", "m" >>

Targets == { TProj, TProj2, TChild, TGrand }

Sizes == 1..MaxSize

Finding == [ target : Targets, size_bytes : Sizes ]

\* str.count("/")
RECURSIVE CountSlash(_)
CountSlash(s) ==
    IF s = << >> THEN 0
    ELSE (IF Head(s) = Slash THEN 1 ELSE 0) + CountSlash(Tail(s))

\* s.startswith(prefix)
StartsWith(s, prefix) ==
    /\ Len(prefix) <= Len(s)
    /\ SubSeq(s, 1, Len(prefix)) = prefix

\* any(seen.startswith(target + "/") for seen in seen_paths)
IsParentOfSeenNoSep(target, seen_paths) ==
    \E seen \in seen_paths : seen # target /\ StartsWith(seen, target)

IsParentOfSeenNever(target, seen_paths) == FALSE

IsParentOfSeen(target, seen_paths) ==
    \E seen \in seen_paths : StartsWith(seen, Append(target, Slash))

---------------------------------------------------------------------------
(* Phase cache files *)

AbsentFile  == [ kind |-> "absent" ]
CorruptFile == [ kind |-> "corrupt" ]

\* the JSON document _save_phase_result writes to state/<phase>.json
PhaseFile(phase, findings) ==
    [ kind |-> "file", phase |-> phase, count |-> Len(findings),
      findings |-> findings ]

\* Optional[list]
NoneResult  == [ some |-> FALSE ]
Some(list)  == [ some |-> TRUE, val |-> list ]

LoadPhaseResultFromCorruptEmpty(files, phase) ==
    IF files[phase].kind = "file" THEN Some(files[phase].findings)
    ELSE IF files[phase].kind = "corrupt" THEN Some(<< >>)
    ELSE NoneResult

\* _load_phase_result: None when the file is missing or is not JSON,
\* else data.get("findings", [])
LoadPhaseResultFrom(files, phase) ==
    IF files[phase].kind = "file" THEN Some(files[phase].findings)
    ELSE NoneResult

LoadPhaseResult(phase) == LoadPhaseResultFrom(cache, phase)

---------------------------------------------------------------------------
(* list.sort(key=..., reverse=...): a stable sort *)

\* Python's ordering of tuples of integers
RECURSIVE TupleLess(_, _)
TupleLess(a, b) ==
    IF a = << >> THEN b # << >>
    ELSE IF b = << >> THEN FALSE
    ELSE IF a[1] # b[1] THEN a[1] < b[1]
    ELSE TupleLess(Tail(a), Tail(b))

\* x goes in front of the first element it is strictly ahead of
RECURSIVE InsertSorted(_, _, _, _)
InsertSorted(x, sorted, key, reverse) ==
    IF sorted = << >> THEN << x >>
    ELSE LET y == Head(sorted)
             ahead == IF reverse THEN TupleLess(key[y], key[x])
                                 ELSE TupleLess(key[x], key[y])
         IN  IF ahead THEN << x >> \o sorted
             ELSE << y >> \o InsertSorted(x, Tail(sorted), key, reverse)

RECURSIVE SortInto(_, _, _, _)
SortInto(rest, acc, key, reverse) ==
    IF rest = << >> THEN acc
    ELSE SortInto(Tail(rest), InsertSorted(Head(rest), acc, key, reverse),
                  key, reverse)

ListSort(list, key, reverse) == SortInto(list, << >>, key, reverse)

---------------------------------------------------------------------------
(* merge_results *)

\* for phase in phases: results = load(phase); if results: extend
RECURSIVE LoadAll(_, _)
LoadAll(files, i) ==
    IF i > Len(PhaseOrder) THEN << >>
    ELSE LET results == LoadPhaseResultFrom(files, PhaseOrder[i])
         IN  (IF results.some /\ results.val # << >> THEN results.val
              ELSE << >>) \o LoadAll(files, i + 1)

\* key=lambda x: (-x["target"].count("/"), -x["size_bytes"])
DepthKey == [ f \in Finding |-> << 0 - CountSlash(f.target), 0 - f.size_bytes >> ]

\* key=lambda x: x["size_bytes"]
SizeKey == [ f \in Finding |-> << f.size_bytes >> ]

AcceptsIgnoringSeen(target, seen_paths) ==
    ~IsParentOfSeen(target, seen_paths)

\* if target not in seen_paths and not is_parent_of_seen
Accepts(target, seen_paths) ==
    target \notin seen_paths /\ ~IsParentOfSeen(target, seen_paths)

\* the dedupe walk: seen_paths and unique after the for loop
RECURSIVE Dedupe(_, _, _)
Dedupe(list, seen_paths, unique) ==
    IF list = << >> THEN unique
    ELSE LET f == Head(list)
             target == f.target
         IN  IF Accepts(target, seen_paths)
             THEN Dedupe(Tail(list), seen_paths \cup {target}, Append(unique, f))
             ELSE Dedupe(Tail(list), seen_paths, unique)

\* unique before the final sort
UniqueOf(files) ==
    Dedupe(ListSort(LoadAll(files, 1), DepthKey, FALSE), {}, << >>)

SortedUniqueNoSort(files) == UniqueOf(files)

\* unique.sort(key=size_bytes, reverse=True)
SortedUnique(files) == ListSort(UniqueOf(files), SizeKey, TRUE)

RECURSIVE SumSizes(_)
SumSizes(list) ==
    IF list = << >> THEN 0 ELSE Head(list).size_bytes + SumSizes(Tail(list))

AbsentReport == [ kind |-> "absent" ]

MergeReportCountingAll(files) ==
    LET unique == SortedUnique(files)
    IN  [ kind |-> "report",
          total_reclaimable_bytes |-> SumSizes(LoadAll(files, 1)),
          item_count |-> Len(LoadAll(files, 1)),
          findings |-> unique ]

\* the result dict of merge_results, as written to scan.json
MergeReport(files) ==
    LET unique == SortedUnique(files)
    IN  [ kind |-> "report",
          total_reclaimable_bytes |-> SumSizes(unique),
          item_count |-> Len(unique),
          findings |-> unique ]

---------------------------------------------------------------------------
(* Scanners *)

\* _is_snoozed
IsSnoozed(target) == target \in snoozed

\* the explored disk: the one candidate each scanner can discover, a large
\* file directly below the home directory of the project, the project's
\* artifact directory, and for the other scanners a sibling directory
PhaseTarget(phase) ==
    CASE phase = "large_files"     -> TProj2
      [] phase = "build_artifacts" -> TChild
      [] phase = "git_repos"       -> TProj
      [] OTHER                     -> TGrand

ScanFinding(phase) ==
    [ target |-> PhaseTarget(phase),
      size_bytes |-> IF phase = "build_artifacts" THEN MaxSize ELSE 1 ]

\* the candidates one scanner run discovers, in discovery order; a
\* candidate is met again when scan roots overlap
ScanLists(phase) ==
    IF phase \in Phases
    THEN UNION { [1..k -> {ScanFinding(phase)}] : k \in 0..MaxScanLen }
    ELSE { << >> }

\* scan_build_artifacts: "Dedupe by target path"
RECURSIVE DedupeByTarget(_, _)
DedupeByTarget(findings, seen) ==
    IF findings = << >> THEN << >>
    ELSE IF Head(findings).target \in seen
         THEN DedupeByTarget(Tail(findings), seen)
         ELSE << Head(findings) >>
              \o DedupeByTarget(Tail(findings), seen \cup {Head(findings).target})

\* the findings list a scanner builds from the candidates it discovers:
\* a candidate whose target is snoozed is skipped before it is appended
ScanNoSnoozeCheck(phase, found) ==
    IF phase = "build_artifacts" THEN DedupeByTarget(found, {}) ELSE found

Scan(phase, found) ==
    LET kept == SelectSeq(found, LAMBDA c : ~IsSnoozed(c.target))
    IN  IF phase = "build_artifacts" THEN DedupeByTarget(kept, {}) ELSE kept

---------------------------------------------------------------------------
(* run_phase *)

NoCall == [ op |-> "none" ]

Call(phase, ran, found, ret) ==
    [ op |-> "run_phase", phase |-> phase, ran |-> ran, found |-> found,
      ret |-> ret ]

RunPhaseAlwaysScan(phase, found) ==
    IF phase \in Phases
    THEN LET findings == Scan(phase, found)
         IN  /\ cache' = [cache EXCEPT ![phase] = PhaseFile(phase, findings)]
             /\ last' = Call(phase, TRUE, found, findings)
    ELSE /\ last' = Call(phase, FALSE, << >>, << >>)
         /\ UNCHANGED cache

RunPhaseFilteringCache(phase, found) ==
    LET cached == LoadPhaseResult(phase)
    IN  IF ~force /\ cached.some
        THEN /\ last' = Call(phase, FALSE, << >>,
                             SelectSeq(cached.val, LAMBDA c : ~IsSnoozed(c.target)))
             /\ UNCHANGED cache
        ELSE RunPhaseAlwaysScan(phase, found)

RunPhaseIgnoringForce(phase, found) ==
    LET cached == LoadPhaseResult(phase)
    IN  IF cached.some
        THEN /\ last' = Call(phase, FALSE, << >>, cached.val)
             /\ UNCHANGED cache
        ELSE RunPhaseAlwaysScan(phase, found)

RunPhaseSavingUnknown(phase, found) ==
    LET cached == LoadPhaseResult(phase)
    IN  IF ~force /\ cached.some
        THEN /\ last' = Call(phase, FALSE, << >>, cached.val)
             /\ UNCHANGED cache
        ELSE LET findings == Scan(phase, found)
             IN  /\ cache' = [cache EXCEPT ![phase] = PhaseFile(phase, findings)]
                 /\ last' = Call(phase, phase \in Phases, found, findings)

\* run_phase(phase, force) when the scanner discovers `found`
RunPhase(phase, found) ==
    LET cached == LoadPhaseResult(phase)
    IN  IF ~force /\ cached.some
        THEN /\ last' = Call(phase, FALSE, << >>, cached.val)
             /\ UNCHANGED cache
        ELSE IF phase \in Phases
        THEN LET findings == Scan(phase, found)
             IN  /\ cache' = [cache EXCEPT ![phase] = PhaseFile(phase, findings)]
                 /\ last' = Call(phase, TRUE, found, findings)
        ELSE /\ last' = Call(phase, FALSE, << >>, << >>)
             /\ UNCHANGED cache

\* whether run_phase(phase, force) reaches the scanner
WouldScan(phase) ==
    /\ phase \in Phases
    /\ force \/ ~LoadPhaseResult(phase).some

---------------------------------------------------------------------------
(* The scout process: main() *)

UsedPhases == { PhaseOrder[i] : i \in 1..MaxPhasesUsed }

NoResume == [ some |-> FALSE ]
Resume(done) == [ some |-> TRUE, done |-> done ]

\* DccScout(...): the configuration and snoozed.json are loaded once
NewProcess(f) ==
    /\ pc = "none"
    /\ pc' = "ready"
    /\ force' = f
    /\ snoozed' = snoozeStore
    /\ idx' = 0
    /\ last' = NoCall
    /\ UNCHANGED <<enabled, cache, scanfile, snoozeStore, resumed>>
    /\ UNCHANGED <<env, out>>

MainMergeConsumingCache ==
    /\ pc = "ready"
    /\ scanfile' = MergeReport(cache)
    /\ cache' = [ p \in PhaseNames |-> AbsentFile ]
    /\ pc' = "done"
    /\ last' = NoCall
    /\ resumed' = NoResume
    /\ UNCHANGED <<enabled, snoozeStore, snoozed, idx, force>>
    /\ UNCHANGED <<env, out>>

\* --merge
MainMerge ==
    /\ pc = "ready"
    /\ scanfile' = MergeReport(cache)
    /\ pc' = "done"
    /\ last' = NoCall
    /\ resumed' = NoResume
    /\ UNCHANGED <<enabled, cache, snoozeStore, snoozed, idx, force>>
    /\ UNCHANGED <<env, out>>

\* --phase a,b,...: one iteration of the loop over the requested names
MainRunPhase(phase, found) ==
    /\ pc \in {"ready", "phases"}
    /\ RunPhase(phase, found)
    /\ pc' = "phases"
    /\ resumed' = NoResume
    /\ UNCHANGED <<enabled, scanfile, snoozeStore, snoozed, idx, force>>
    /\ UNCHANGED <<env, out>>

\* --phase a,b,...: the merge after the loop
MainPhasesMerge ==
    /\ pc = "phases"
    /\ scanfile' = MergeReport(cache)
    /\ pc' = "done"
    /\ last' = NoCall
    /\ UNCHANGED <<enabled, cache, snoozeStore, snoozed, idx, force, resumed>>
    /\ UNCHANGED <<env, out>>

---------------------------------------------------------------------------
(* run_all *)

\* indices of the enabled entries of config["phases"] after position i
EnabledAfter(i) ==
    { j \in (i + 1)..Len(ConfigOrder) : enabled[ConfigOrder[j]] }

Min(S) == CHOOSE x \in S : \A y \in S : x <= y

\* the enabled entries among the first i that name a phase with a scanner
CompletedUpTo(i) ==
    { ConfigOrder[j] : j \in { k \in 1..i : enabled[ConfigOrder[k]] } } \cap Phases

\* run_all is entered
RunAllStart ==
    /\ pc = "ready"
    /\ pc' = "run_all"
    /\ idx' = 0
    /\ last' = NoCall
    /\ resumed' = IF force THEN NoResume ELSE resumed
    /\ UNCHANGED <<enabled, cache, scanfile, snoozeStore, snoozed, force>>
    /\ UNCHANGED <<env, out>>

\* the loop advances to the next enabled entry, phase, and runs it
RunAllPhase(phase, found) ==
    /\ pc = "run_all"
    /\ EnabledAfter(idx) # {}
    /\ LET j == Min(EnabledAfter(idx))
       IN  /\ phase = ConfigOrder[j]
           /\ RunPhase(phase, found)
           /\ idx' = j
    /\ UNCHANGED <<enabled, scanfile, snoozeStore, snoozed, pc, force, resumed>>
    /\ UNCHANGED <<env, out>>

RunAllMergeEarly ==
    /\ pc = "run_all"
    /\ scanfile' = MergeReport(cache)
    /\ pc' = "done"
    /\ idx' = Len(ConfigOrder)
    /\ last' = NoCall
    /\ UNCHANGED <<enabled, cache, snoozeStore, snoozed, force, resumed>>
    /\ UNCHANGED <<env, out>>

\* the loop is over: merge_results, then scan.json is saved again
RunAllMerge ==
    /\ pc = "run_all"
    /\ EnabledAfter(idx) = {}
    /\ scanfile' = MergeReport(cache)
    /\ pc' = "done"
    /\ idx' = Len(ConfigOrder)
    /\ last' = NoCall
    /\ UNCHANGED <<enabled, cache, snoozeStore, snoozed, force, resumed>>
    /\ UNCHANGED <<env, out>>

---------------------------------------------------------------------------
(* The process ends *)

\* the memory of the process is gone
ProcessGone ==
    /\ pc' = "none"
    /\ snoozed' = {}
    /\ idx' = 0
    /\ force' = FALSE
    /\ last' = NoCall

\* main() returns
Exit ==
    /\ pc = "done"
    /\ ProcessGone
    /\ resumed' = NoResume
    /\ UNCHANGED <<enabled, cache, scanfile, snoozeStore>>
    /\ UNCHANGED <<env, out>>

\* the process is killed between two steps
Interrupt ==
    /\ pc \in {"ready", "phases", "run_all"}
    /\ ProcessGone
    /\ resumed' = IF pc = "run_all" THEN Resume(CompletedUpTo(idx))
                  ELSE IF pc = "ready" THEN resumed ELSE NoResume
    /\ UNCHANGED <<enabled, cache, scanfile, snoozeStore>>
    /\ UNCHANGED <<env, out>>

\* the process is killed while _save_phase_result writes the file of the
\* phase that is being scanned: the file is left truncated
InterruptDuringSave ==
    /\ \/ /\ pc = "run_all"
          /\ EnabledAfter(idx) # {}
          /\ WouldScan(ConfigOrder[Min(EnabledAfter(idx))])
          /\ cache' = [cache EXCEPT
                          ![ConfigOrder[Min(EnabledAfter(idx))]] = CorruptFile]
          /\ resumed' = Resume(CompletedUpTo(idx))
       \/ /\ pc \in {"ready", "phases"}
          /\ \E phase \in UsedPhases :
                /\ WouldScan(phase)
                /\ cache' = [cache EXCEPT ![phase] = CorruptFile]
          /\ resumed' = NoResume
    /\ ProcessGone
    /\ UNCHANGED <<enabled, scanfile, snoozeStore>>
    /\ UNCHANGED <<env, out>>

---------------------------------------------------------------------------
(* The review application, run between two runs of the scout *)

\* targets of the findings listed in scan.json
ReportTargets ==
    IF scanfile.kind = "report"
    THEN { scanfile.findings[i].target : i \in 1..Len(scanfile.findings) }
    ELSE {}

\* _save_snoozes: of the listed findings exactly those the user left
\* snoozed are in snoozed.json afterwards; other entries are kept
SaveSnoozes(chosen) ==
    /\ pc = "none"
    /\ scanfile.kind = "report"
    /\ chosen \subseteq ReportTargets
    /\ snoozeStore' = (snoozeStore \ ReportTargets) \cup chosen
    /\ UNCHANGED <<enabled, cache, scanfile, snoozed, pc, idx, force, last,
                   resumed>>
    /\ UNCHANGED <<env, out>>

---------------------------------------------------------------------------
(* Specifications *)

\* no helper is under study
NoEnv == [ op |-> "none" ]
NoOut == [ kind |-> "none" ]

NoFiles == [ p \in PhaseNames |-> AbsentFile ]

\* the configurations explored: any choice of enabled keys among UsedPhases
\* and the unknown key
Init ==
    /\ enabled \in { [ p \in PhaseNames |-> p \in E ] :
                        E \in SUBSET (UsedPhases \cup {UnknownPhase}) }
    /\ cache = NoFiles
    /\ scanfile = AbsentReport
    /\ snoozeStore = {}
    /\ snoozed = {}
    /\ pc = "none"
    /\ idx = 0
    /\ force = FALSE
    /\ last = NoCall
    /\ resumed = NoResume
    /\ env = NoEnv
    /\ out = NoOut

Next ==
    \/ \E f \in BOOLEAN : NewProcess(f)
    \/ MainMerge
    \/ \E phase \in UsedPhases \cup {UnknownPhase} :
       \E found \in ScanLists(phase) : MainRunPhase(phase, found)
    \/ MainPhasesMerge
    \/ RunAllStart
    \/ \E phase \in PhaseNames :
       \E found \in ScanLists(phase) : RunAllPhase(phase, found)
    \/ RunAllMerge
    \/ Exit
    \/ Interrupt
    \/ InterruptDuringSave
    \/ \E chosen \in SUBSET Targets : SaveSnoozes(chosen)

Spec == Init /\ [][Next]_vars

\* The merge engine on arbitrary cache contents: up to MaxFindings findings
\* in all, cut into the files of the first MaxPhasesUsed phases, and a scout
\* started with --merge
InitMerge ==
    /\ \E n \in 0..MaxFindings :
       \E inner \in [1..(MaxPhasesUsed - 1) -> 0..n] :
          LET cut == [ i \in 0..MaxPhasesUsed |->
                         IF i = 0 THEN 0
                         ELSE IF i = MaxPhasesUsed THEN n ELSE inner[i] ]
          IN  /\ \A i \in 1..MaxPhasesUsed : cut[i - 1] <= cut[i]
              /\ \E all \in [1..n -> Finding] :
                    cache = [ p \in PhaseNames |->
                         IF \E i \in 1..MaxPhasesUsed :
                               p = PhaseOrder[i] /\ cut[i - 1] < cut[i]
                         THEN LET i == CHOOSE i \in 1..MaxPhasesUsed : p = PhaseOrder[i]
                              IN  PhaseFile(p, SubSeq(all, cut[i - 1] + 1, cut[i]))
                         ELSE AbsentFile ]
    /\ enabled = [ p \in PhaseNames |-> p \in Phases ]
    /\ scanfile = AbsentReport
    /\ snoozeStore = {}
    /\ snoozed = {}
    /\ pc = "ready"
    /\ idx = 0
    /\ force = FALSE
    /\ last = NoCall
    /\ resumed = NoResume
    /\ env = NoEnv
    /\ out = NoOut

NextMerge == MainMerge

SpecMerge == InitMerge /\ [][NextMerge]_vars

---------------------------------------------------------------------------
(* Properties of merge_results *)

\* s names a path below the directory t
IsDescendant(s, t) == StartsWith(s, Append(t, Slash))

\* the findings held in the phase caches, in load order
Inputs == LoadAll(cache, 1)

HasReport == scanfile.kind = "report"

Report == scanfile.findings

Occurrences(list, target) ==
    Cardinality({ i \in 1..Len(list) : list[i].target = target })

HasDescendantIn(list, target) ==
    \E j \in 1..Len(list) : IsDescendant(list[j].target, target)

\* C1: the merged findings have pairwise distinct targets and none of them
\* is an ancestor directory of another one.
C1_UniqueAndNoAncestor ==
    HasReport =>
        \A i \in 1..Len(Report) : \A j \in 1..Len(Report) :
            i # j => /\ Report[i].target # Report[j].target
                     /\ ~IsDescendant(Report[j].target, Report[i].target)

\* the caches held a duplicated target and an ancestor with its descendant
C1_Witness ==
    /\ HasReport
    /\ \E i \in 1..Len(Inputs) : \E j \in 1..Len(Inputs) :
          i # j /\ Inputs[i].target = Inputs[j].target
    /\ \E i \in 1..Len(Inputs) : HasDescendantIn(Inputs, Inputs[i].target)
    /\ Len(Report) >= 1

\* C2: a target that occurs twice or more in the caches and is no ancestor
\* of another cached target occurs exactly once in the report.
C2_DuplicateKeptOnce ==
    HasReport =>
        \A i \in 1..Len(Inputs) :
            ( /\ Occurrences(Inputs, Inputs[i].target) >= 2
              /\ ~HasDescendantIn(Inputs, Inputs[i].target) )
            => Occurrences(Report, Inputs[i].target) = 1

\* the same target came from two different phase files
C2_Witness ==
    /\ HasReport
    /\ \E p \in Phases : \E q \in Phases \ {p} :
          /\ cache[p].kind = "file" /\ cache[q].kind = "file"
          /\ \E i \in 1..Len(cache[p].findings) :
             \E j \in 1..Len(cache[q].findings) :
                /\ cache[p].findings[i].target = cache[q].findings[j].target
                /\ ~HasDescendantIn(Inputs, cache[p].findings[i].target)
                /\ Occurrences(Report, cache[p].findings[i].target) = 1

\* C3: a cached finding is missing from the report only if the report has
\* its target or a true descendant of its target; every cached target
\* without a cached descendant is in the report, so targets that only share
\* a string prefix do not displace each other.
C3_DropsOnlyDuplicatesAndAncestors ==
    HasReport =>
        /\ \A i \in 1..Len(Inputs) :
              \E r \in 1..Len(Report) :
                 \/ Report[r].target = Inputs[i].target
                 \/ IsDescendant(Report[r].target, Inputs[i].target)
        /\ \A i \in 1..Len(Inputs) :
              ~HasDescendantIn(Inputs, Inputs[i].target)
              => Occurrences(Report, Inputs[i].target) >= 1
        /\ \A r \in 1..Len(Report) :
              \E i \in 1..Len(Inputs) : Inputs[i] = Report[r]

\* ~/p and ~/p2 were cached, nothing below ~/p was, and both survived
C3_Witness ==
    /\ HasReport
    /\ Occurrences(Inputs, TProj) >= 1
    /\ Occurrences(Inputs, TProj2) >= 1
    /\ ~HasDescendantIn(Inputs, TProj)
    /\ Occurrences(Report, TProj) = 1
    /\ Occurrences(Report, TProj2) = 1

\* C4: the report lists its findings by size_bytes in non-increasing order.
C4_SortedBySizeDescending ==
    HasReport =>
        \A i \in 1..Len(Report) : \A j \in 1..Len(Report) :
            i < j => Report[i].size_bytes >= Report[j].size_bytes

\* the survivors were not in size order before the final sort
C4_Witness ==
    /\ HasReport
    /\ Len(Report) >= 2
    /\ Report[1].size_bytes > Report[Len(Report)].size_bytes
    /\ UniqueOf(cache) # Report

\* sum of size_bytes over the positions of a list
RECURSIVE SumAt(_, _)
SumAt(list, n) ==
    IF n = 0 THEN 0 ELSE list[n].size_bytes + SumAt(list, n - 1)

\* C5: total_reclaimable_bytes is the sum of size_bytes of the surviving
\* findings and item_count is their number.
C5_TotalsOfSurvivors ==
    HasReport =>
        /\ scanfile.total_reclaimable_bytes = SumAt(Report, Len(Report))
        /\ scanfile.item_count = Len(Report)

\* a duplicate or an ancestor was dropped and something survived
C5_Witness ==
    /\ HasReport
    /\ Len(Report) >= 1
    /\ Len(Report) < Len(Inputs)
    /\ scanfile.total_reclaimable_bytes < SumAt(Inputs, Len(Inputs))

---------------------------------------------------------------------------
(* Properties of run_phase *)

Elements(list) == { list[i] : i \in 1..Len(list) }

TargetsOf(list) == { list[i].target : i \in 1..Len(list) }

\* C6: the list a run_phase call returns, forced or served from the cache,
\* holds no target of the snooze set the process loaded.
C6_NoSnoozedTargetReturned ==
    last.op = "run_phase" => TargetsOf(last.ret) \cap snoozed = {}

\* C7: run_phase without force on a loadable cache file returns the cached
\* list, does not run the scanner and leaves the cache files as they were.
C7_CacheServedUnchanged ==
    [][ ( /\ last'.op = "run_phase"
          /\ ~force'
          /\ cache[last'.phase].kind = "file" )
        => ( /\ last'.ret = cache[last'.phase].findings
             /\ ~last'.ran
             /\ cache' = cache ) ]_vars

\* a non-empty cached list was served although the scanner would by now
\* find something else
C7_Witness ==
    /\ last.op = "run_phase"
    /\ ~force
    /\ ~last.ran
    /\ last.phase \in Phases
    /\ last.ret # << >>
    /\ last.ret = cache[last.phase].findings
    /\ TargetsOf(last.ret) \cap snoozed # {}

\* C8: run_phase with force on a known phase runs the scanner, returns its
\* result and leaves exactly that result in the phase's cache file: every
\* cached finding was discovered by this run; no other file is touched.
C8_ForceRescansAndReplaces ==
    [][ ( /\ last'.op = "run_phase"
          /\ force'
          /\ last'.phase \in Phases )
        => ( /\ last'.ran
             /\ cache'[last'.phase].kind = "file"
             /\ cache'[last'.phase].phase = last'.phase
             /\ cache'[last'.phase].findings = last'.ret
             /\ cache'[last'.phase].count = Len(last'.ret)
             /\ Elements(last'.ret) \subseteq Elements(last'.found)
             /\ TargetsOf(last'.found) \ snoozed \subseteq TargetsOf(last'.ret)
             /\ \A q \in PhaseNames \ {last'.phase} : cache'[q] = cache[q] ) ]_vars

\* a forced run replaced a non-empty cached list by an empty result
C8_Witness ==
    /\ last.op = "run_phase"
    /\ force
    /\ last.ran
    /\ last.ret = << >>
    /\ cache[last.phase] = PhaseFile(last.phase, << >>)
    /\ scanfile.kind = "report"
    /\ scanfile.findings # << >>

---------------------------------------------------------------------------
(* Properties of run_all *)

EnabledPhases == { p \in Phases : enabled[p] }

HasFile(files, phase) == files[phase].kind = "file"

\* C9: run_all runs the enabled phases one at a time in configured order;
\* when a phase (a name with a scanner) has finished its cache file exists,
\* also if the process is killed afterwards; the merge comes after the last
\* enabled phase.
C9_PhasesInOrderSavedBeforeMerge ==
    [][ /\ ( pc = "run_all" /\ pc' = "run_all" /\ idx' # idx )
           => ( /\ idx' > idx
                /\ last'.op = "run_phase"
                /\ last'.phase = ConfigOrder[idx']
                /\ enabled[ConfigOrder[idx']]
                /\ \A j \in (idx + 1)..(idx' - 1) : ~enabled[ConfigOrder[j]]
                /\ ConfigOrder[idx'] \in Phases => HasFile(cache', ConfigOrder[idx'])
                /\ scanfile' = scanfile )
        /\ ( pc = "run_all" /\ pc' \in {"run_all", "none"} )
           => \A p \in CompletedUpTo(idx') : HasFile(cache', p)
        /\ ( pc = "run_all" /\ scanfile' # scanfile ) => pc' = "done"
        /\ ( pc = "run_all" /\ pc' = "done" )
           => ( /\ CompletedUpTo(idx) = EnabledPhases
                /\ \A p \in EnabledPhases : HasFile(cache, p)
                /\ cache' = cache
                /\ scanfile'.kind = "report" ) ]_vars

\* run_all was killed after its first phase was saved and before its
\* second phase ran
C9_Witness ==
    /\ pc = "none"
    /\ ~enabled[UnknownPhase]
    /\ resumed.some
    /\ resumed.done # {}
    /\ resumed.done # EnabledPhases
    /\ \A p \in resumed.done : HasFile(cache, p)
    /\ \E p \in EnabledPhases \ resumed.done : ~HasFile(cache, p)

\* every cached finding of the phase is in the report, by its own target or
\* by a descendant of it
Covered(phase) ==
    /\ HasFile(cache, phase)
    /\ \A t \in TargetsOf(cache[phase].findings) :
          \E r \in 1..Len(Report) :
             Report[r].target = t \/ IsDescendant(Report[r].target, t)

\* C10 as stated: in a run_all started without force after an interrupted
\* run_all, the phases that run had completed are served from the cache,
\* every other enabled phase is scanned, and the run ends with a report
\* that covers all enabled phases.
C10_ResumeScansEveryRemainingPhase ==
    [][ /\ ( pc' = "run_all" /\ resumed.some /\ last'.op = "run_phase" )
           => ( /\ last'.phase \in resumed.done => ( ~last'.ran /\ cache' = cache )
                /\ last'.phase \in Phases \ resumed.done => last'.ran )
        /\ ( pc = "run_all" /\ pc' = "done" /\ resumed.some )
           => ( scanfile'.kind = "report"
                /\ \A p \in EnabledPhases : Covered(p)' ) ]_vars

\* C10 amended: a remaining phase is scanned exactly when it has no loadable
\* cache file; one that has a file left by an earlier run is served from it.
C10_ResumeScansUncachedPhases ==
    [][ /\ ( pc' = "run_all" /\ resumed.some /\ last'.op = "run_phase" )
           => ( /\ last'.phase \in resumed.done => ( ~last'.ran /\ cache' = cache )
                /\ last'.phase \in Phases \ resumed.done
                   => ( last'.ran <=> ~HasFile(cache, last'.phase) ) )
        /\ ( pc = "run_all" /\ pc' = "done" /\ resumed.some )
           => ( scanfile'.kind = "report"
                /\ \A p \in EnabledPhases : Covered(p)' ) ]_vars

\* the resumed run has served a completed phase from the cache and has
\* just scanned a remaining one that found something
C10_Witness ==
    /\ pc = "run_all"
    /\ resumed.some
    /\ resumed.done # {}
    /\ last.op = "run_phase"
    /\ last.phase \notin resumed.done
    /\ last.ran
    /\ last.ret # << >>

---------------------------------------------------------------------------
(* _load_snoozed on an arbitrary snoozed.json *)

\* most entries of a snoozed.json
MaxItems == 2
\* latest point in time, of the clock and of an expires_at
MaxTime == 2

Times == 0..MaxTime

SnoozeTargets == { TProj, TChild }

\* item["target"]: the key may be missing
NoTarget == [ has |-> FALSE ]
TargetOf(t) == [ has |-> TRUE, val |-> t ]

\* item["expires_at"]: the key may be missing, and its string may be one
\* that datetime.fromisoformat rejects
ExpMissing == [ kind |-> "missing" ]
ExpGarbage == [ kind |-> "garbage" ]
ExpAt(n) == [ kind |-> "iso", at |-> n ]

SnoozeEntry ==
    [ target : { NoTarget } \cup { TargetOf(t) : t \in SnoozeTargets },
      expires_at : { ExpMissing, ExpGarbage } \cup { ExpAt(n) : n \in Times } ]

\* the contents snoozed.json can have: no file, text that is not JSON, a
\* JSON array, and a JSON object without "items" or with a list of entries
SnoozeFiles ==
    { [ kind |-> "absent" ], [ kind |-> "invalid_json" ], [ kind |-> "array" ],
      [ kind |-> "object", hasItems |-> FALSE ] }
    \cup { [ kind |-> "object", hasItems |-> TRUE, items |-> items ] :
              items \in UNION { [1..k -> SnoozeEntry] : k \in 0..MaxItems } }

Returned(val) == [ kind |-> "returned", val |-> val ]
Raised(exc) == [ kind |-> "raised", exc |-> exc ]

\* the for loop of _load_snoozed inside try / except (JSONDecodeError,
\* KeyError): a KeyError returns set(), any other exception leaves the method
RECURSIVE LoadSnoozedLoop(_, _, _)
LoadSnoozedLoop(items, active, now) ==
    IF items = << >> THEN Returned(active)
    ELSE LET item == Head(items)
         IN  IF item.expires_at.kind = "missing" THEN Returned({})
             ELSE IF item.expires_at.kind = "garbage" THEN Raised("ValueError")
             ELSE IF item.expires_at.at > now
                  THEN IF item.target.has
                       THEN LoadSnoozedLoop(Tail(items),
                                            active \cup {item.target.val}, now)
                       ELSE Returned({})
                  ELSE LoadSnoozedLoop(Tail(items), active, now)

\* _load_snoozed
LoadSnoozed(file, now) ==
    CASE file.kind = "absent"       -> Returned({})
      [] file.kind = "invalid_json" -> Returned({})
      [] file.kind = "array"        -> Raised("AttributeError")
      [] file.kind = "object" ->
            IF file.hasItems THEN LoadSnoozedLoop(file.items, {}, now)
            ELSE Returned({})

\* DccScout.__init__ reaches self.snoozed = self._load_snoozed()
LoadSnoozedCall ==
    /\ env.op = "load_snoozed"
    /\ out = NoOut
    /\ out' = LoadSnoozed(env.file, env.now)
    /\ snoozed' = IF out'.kind = "returned" THEN out'.val ELSE snoozed
    /\ pc' = IF out'.kind = "returned" THEN "ready" ELSE "none"
    /\ UNCHANGED <<enabled, cache, scanfile, snoozeStore, idx, force, last,
                   resumed, env>>

InitSnoozed ==
    /\ \E file \in SnoozeFiles, now \in Times :
          env = [ op |-> "load_snoozed", file |-> file, now |-> now ]
    /\ out = NoOut
    /\ enabled = [ p \in PhaseNames |-> p \in Phases ]
    /\ cache = NoFiles
    /\ scanfile = AbsentReport
    /\ snoozeStore = {}
    /\ snoozed = {}
    /\ pc = "none"
    /\ idx = 0
    /\ force = FALSE
    /\ last = NoCall
    /\ resumed = NoResume

NextSnoozed == LoadSnoozedCall

SpecSnoozed == InitSnoozed /\ [][NextSnoozed]_vars

\* the entries of a snoozed.json that has the documented shape
SnoozeItems(file) ==
    IF file.kind = "object" /\ file.hasItems THEN file.items ELSE << >>

\* no file, or an object whose entries all have a target and a parsable
\* expires_at
SnoozeWellFormed(file) ==
    \/ file.kind = "absent"
    \/ /\ file.kind = "object"
       /\ file.hasItems
       /\ \A i \in 1..Len(file.items) :
             file.items[i].target.has /\ file.items[i].expires_at.kind = "iso"

\* C11: loading never raises; on a well-formed store the active set holds
\* exactly the targets with an entry whose expires_at is later than the load
\* time; on any malformed store (not JSON, not an object, missing keys,
\* unparsable expires_at) the active set is empty.
C11_ActiveIffUnexpired ==
    ( env.op = "load_snoozed" /\ out # NoOut ) =>
        /\ out.kind = "returned"
        /\ SnoozeWellFormed(env.file) =>
              out.val = { t \in SnoozeTargets :
                            \E i \in 1..Len(SnoozeItems(env.file)) :
                               /\ SnoozeItems(env.file)[i].target = TargetOf(t)
                               /\ SnoozeItems(env.file)[i].expires_at.at > env.now }
        /\ ~SnoozeWellFormed(env.file) => out.val = {}

---------------------------------------------------------------------------
(* Properties of the error handling of the scout *)

CorruptPhases == { p \in Phases : cache[p] = CorruptFile }

---------------------------------------------------------------------------
(* _load_config on an arbitrary config.yaml *)

\* largest number a user's file gives a threshold
MaxThreshold == 1

\* a YAML value: a sequence, a mapping (a function on its keys), or a scalar
ListValue(val) == [ kind |-> "list", val |-> val ]
MapValue(val) == [ kind |-> "map", val |-> val ]
ScalarValue == [ kind |-> "scalar" ]

ThresholdFields ==
    { "large_file_min_gb", "stale_days", "stale_app_days", "log_file_min_mb" }

\* DEFAULT_CONFIG (exclude_paths stands for its sixteen entries)
DefaultConfig ==
    [ scan_paths |-> ListValue(<< "~/" >>),
      exclude_paths |-> ListValue(<< "~/.Trash" >>),
      thresholds |-> MapValue([ large_file_min_gb |-> 1, stale_days |-> 30,
                                stale_app_days |-> 90, log_file_min_mb |-> 100 ]),
      phases |-> MapValue([ p \in Phases |-> TRUE ]) ]

\* a top-level key that DEFAULT_CONFIG does not have
ExtraKey == "extra"

UserKeys == DOMAIN DefaultConfig \cup { ExtraKey }

MapsOver(fields, values) == UNION { [D -> values] : D \in SUBSET fields }

\* the values a user's file can give a key: for thresholds and phases a
\* mapping of some fields, or a scalar such as the null of an empty entry
UserValues(key) ==
    CASE key = "scan_paths"    -> { ListValue(<< "~/custom" >>) }
      [] key = "exclude_paths" -> { ListValue(<< >>) }
      [] key = "thresholds" ->
            { ScalarValue }
            \cup { MapValue(m) : m \in MapsOver(ThresholdFields, 0..MaxThreshold) }
      [] key = "phases" ->
            { ScalarValue }
            \cup { MapValue(m) :
                     m \in MapsOver({ PhaseOrder[1], UnknownPhase }, BOOLEAN) }
      [] OTHER -> { ScalarValue }

Unset == [ set |-> FALSE ]
SetTo(v) == [ set |-> TRUE, val |-> v ]

\* a key of the user's mapping: not set, or set to one of its values
Options(key) == { Unset } \cup { SetTo(v) : v \in UserValues(key) }

\* the documents config.yaml can hold: no file, text that is not YAML, an
\* empty document, a non-empty sequence, and a mapping
ConfigFiles ==
    { [ kind |-> "absent" ], [ kind |-> "invalid_yaml" ], [ kind |-> "empty" ],
      [ kind |-> "sequence" ] }
    \cup { [ kind |-> "mapping",
             entries |-> [ scan_paths |-> a, exclude_paths |-> b,
                           thresholds |-> c, phases |-> d, extra |-> e ] ] :
              a \in Options("scan_paths"), b \in Options("exclude_paths"),
              c \in Options("thresholds"), d \in Options("phases"),
              e \in Options(ExtraKey) }

\* user_config of a mapping document, as a dict
UserConfig(file) ==
    [ k \in { k \in UserKeys : file.entries[k].set } |-> file.entries[k].val ]

\* {**a, **b}
DictMerge(a, b) ==
    [ k \in DOMAIN a \cup DOMAIN b |-> IF k \in DOMAIN b THEN b[k] ELSE a[k] ]

MergeConfigWholesale(user_config) == DictMerge(DefaultConfig, user_config)

\* the merge loop of _load_config over user_config.items()
MergeConfig(user_config) ==
    [ key \in DOMAIN DefaultConfig \cup DOMAIN user_config |->
         IF key \notin DOMAIN user_config THEN DefaultConfig[key]
         ELSE IF user_config[key].kind = "map" /\ key \in DOMAIN DefaultConfig
              THEN MapValue(DictMerge(DefaultConfig[key].val, user_config[key].val))
              ELSE user_config[key] ]

\* _load_config: nothing in it catches an exception
LoadConfig(file) ==
    CASE file.kind = "absent"       -> Returned(DefaultConfig)
      [] file.kind = "invalid_yaml" -> Raised("YAMLError")
      [] file.kind = "empty"        -> Returned(MergeConfig(<< >>))
      [] file.kind = "sequence"     -> Raised("AttributeError")
      [] file.kind = "mapping"      -> Returned(MergeConfig(UserConfig(file)))

\* DccScout.__init__ reaches self.config = self._load_config()
LoadConfigCall ==
    /\ env.op = "load_config"
    /\ out = NoOut
    /\ out' = LoadConfig(env.file)
    /\ enabled' = IF out'.kind = "returned" /\ out'.val.phases.kind = "map"
                  THEN [ p \in PhaseNames |->
                            /\ p \in DOMAIN out'.val.phases.val
                            /\ out'.val.phases.val[p] ]
                  ELSE enabled
    /\ UNCHANGED <<cache, scanfile, snoozeStore, snoozed, pc, idx, force, last,
                   resumed, env>>

InitConfig ==
    /\ \E file \in ConfigFiles : env = [ op |-> "load_config", file |-> file ]
    /\ out = NoOut
    /\ enabled = [ p \in PhaseNames |-> FALSE ]
    /\ cache = NoFiles
    /\ scanfile = AbsentReport
    /\ snoozeStore = {}
    /\ snoozed = {}
    /\ pc = "none"
    /\ idx = 0
    /\ force = FALSE
    /\ last = NoCall
    /\ resumed = NoResume

NextConfig == LoadConfigCall

SpecConfig == InitConfig /\ [][NextConfig]_vars

\* C13: a config.yaml that is not YAML or is not a mapping never makes the
\* constructor fail; the resolved configuration is then the default one.
C13_MalformedConfigGivesDefaults ==
    ( /\ env.op = "load_config"
      /\ out # NoOut
      /\ env.file.kind \in {"invalid_yaml", "sequence"} )
    => out = Returned(DefaultConfig)

\* the keys the user's mapping sets
UserSet(file) == { k \in UserKeys : file.entries[k].set }

\* C15: for a config.yaml that is a mapping the resolved configuration has
\* the default keys and the user's keys; a key the user does not set keeps
\* its default; thresholds and phases given as mappings are merged field by
\* field, a field the user does not set keeping its default; any other
\* value the user gives is taken as it is.
C15_DefaultsOverriddenKeyByKey ==
    ( env.op = "load_config" /\ out # NoOut /\ env.file.kind = "mapping" ) =>
        /\ out.kind = "returned"
        /\ DOMAIN out.val = DOMAIN DefaultConfig \cup UserSet(env.file)
        /\ \A key \in DOMAIN DefaultConfig \ UserSet(env.file) :
              out.val[key] = DefaultConfig[key]
        /\ \A key \in UserSet(env.file) :
              LET given == env.file.entries[key].val
              IN  IF given.kind = "map" /\ key \in {"thresholds", "phases"}
                  THEN /\ out.val[key].kind = "map"
                       /\ DOMAIN out.val[key].val =
                             DOMAIN DefaultConfig[key].val \cup DOMAIN given.val
                       /\ \A field \in DOMAIN given.val :
                             out.val[key].val[field] = given.val[field]
                       /\ \A field \in DOMAIN DefaultConfig[key].val
                                       \ DOMAIN given.val :
                             out.val[key].val[field] = DefaultConfig[key].val[field]
                  ELSE out.val[key] = given

\* the user overrides only scan_paths and large_file_min_gb, as in
\* test_loads_custom_config: the other thresholds are the default ones
C15_Witness ==
    /\ env.op = "load_config"
    /\ out.kind = "returned"
    /\ env.file.kind = "mapping"
    /\ UserSet(env.file) = {"scan_paths", "thresholds"}
    /\ env.file.entries["thresholds"].val = MapValue([ large_file_min_gb |-> 0 ])
    /\ out.val.scan_paths = ListValue(<< "~/custom" >>)
    /\ out.val.thresholds.val.large_file_min_gb = 0
    /\ out.val.thresholds.val.stale_days = 30
    /\ out.val.phases = DefaultConfig.phases

---------------------------------------------------------------------------
(* The options and the recommendation a scanner gives a finding *)

\* days since the last access of a candidate, around the limits 30 and 90
StalenessDays == { 0, 30, 31, 90, 91 }

\* loose objects of a repository, around the limits 1000 and 5000
LooseCounts == { 0, 1001, 5001 }

\* what the scanners look at when they choose options and recommendation:
\* staleness, loose object count, whether a large file has the suffix of a
\* compressed format, whether a cache candidate is a directory of MODEL_DIRS
Candidates ==
    [ staleness : StalenessDays, loose_objects : LooseCounts,
      compressed : BOOLEAN, model_dir : BOOLEAN ]

Option(id, reversible) == [ id |-> id, reversible |-> reversible ]

\* options=... of the _make_finding call of each scanner
OptionsOf(phase, cand) ==
    CASE phase = "large_files" ->
            IF cand.compressed THEN << Option("delete", FALSE) >>
            ELSE << Option("delete", FALSE), Option("compress", TRUE) >>
      [] phase = "build_artifacts" ->
            << Option("delete", FALSE), Option("compress", TRUE) >>
      [] phase = "git_repos"          -> << Option("git-gc", FALSE) >>
      [] phase = "ollama_models"      -> << Option("ollama-rm", FALSE) >>
      [] phase = "huggingface_models" -> << Option("hf-delete", FALSE) >>
      [] OTHER                        -> << Option("delete", FALSE) >>

StaleOrSkip(cand, limit) == IF cand.staleness > limit THEN "delete" ELSE "skip"

\* recommendation=... of the _make_finding call of each scanner
RecommendationOf(phase, cand) ==
    CASE phase = "large_files" -> StaleOrSkip(cand, 90)
      [] phase = "build_artifacts" ->
            StaleOrSkip(cand, DefaultConfig.thresholds.val.stale_days)
      [] phase = "git_repos" ->
            IF cand.loose_objects > 5000 THEN "git-gc"
            ELSE IF cand.loose_objects > 1000 THEN "git-gc"
            ELSE "skip"
      [] phase = "ollama_models"      -> StaleOrSkip(cand, 30)
      [] phase = "huggingface_models" -> StaleOrSkip(cand, 30)
      [] phase = "applications" ->
            StaleOrSkip(cand, DefaultConfig.thresholds.val.stale_app_days)
      [] phase = "library_leftovers"  -> "delete"
      [] phase = "caches" ->
            IF cand.model_dir THEN StaleOrSkip(cand, 30) ELSE "delete"
      [] phase = "logs"               -> "delete"

\* the options and recommendation fields of the dict _make_finding builds
MakeFinding(phase, cand) ==
    [ phase |-> phase,
      staleness_days |-> cand.staleness,
      options |-> OptionsOf(phase, cand),
      recommendation |-> RecommendationOf(phase, cand) ]

\* a scanner passes its size floor and snooze check and emits the finding
MakeFindingCall ==
    /\ env.op = "make_finding"
    /\ out = NoOut
    /\ out' = Returned(MakeFinding(env.phase, env.cand))
    /\ UNCHANGED <<enabled, cache, scanfile, snoozeStore, snoozed, pc, idx,
                   force, last, resumed, env>>

InitOptions ==
    /\ \E phase \in Phases, cand \in Candidates :
          env = [ op |-> "make_finding", phase |-> phase, cand |-> cand ]
    /\ out = NoOut
    /\ enabled = [ p \in PhaseNames |-> p \in Phases ]
    /\ cache = NoFiles
    /\ scanfile = AbsentReport
    /\ snoozeStore = {}
    /\ snoozed = {}
    /\ pc = "ready"
    /\ idx = 0
    /\ force = FALSE
    /\ last = NoCall
    /\ resumed = NoResume

NextOptions == MakeFindingCall

SpecOptions == InitOptions /\ [][NextOptions]_vars

OptionIds(options) == { options[i].id : i \in 1..Len(options) }

\* C16: every finding a scanner emits has at least one option, and its
\* recommendation is the id of one of its options.
C16_RecommendationIsAnOption ==
    ( env.op = "make_finding" /\ out # NoOut ) =>
        /\ Len(out.val.options) >= 1
        /\ out.val.recommendation \in OptionIds(out.val.options)

---------------------------------------------------------------------------
(* scan_build_artifacts on one project directory *)

\* most marker files found in the project
MaxMarkers == 2
\* most artifact directories the project has
MaxArtifactDirs == 1

\* a file name is the sequence of its stem and its extension; a marker of
\* the table is a file name or a glob such as *.csproj
Row(marker, artifact_dirs, category, restore_hint) ==
    [ marker |-> marker, artifact_dirs |-> artifact_dirs,
      category |-> category, restore_hint |-> restore_hint ]

\* BUILD_ARTIFACTS
BuildArtifacts ==
    << Row(<< "package.json" >>, << "node_modules" >>, "node", "npm install"),
       Row(<< "package-lock.json" >>, << "node_modules" >>, "node", "npm install"),
       Row(<< "yarn.lock" >>, << "node_modules" >>, "node", "yarn install"),
       Row(<< "pnpm-lock.yaml" >>, << "node_modules" >>, "node", "pnpm install"),
       Row(<< "Cargo.toml" >>, << "target" >>, "rust", "cargo build"),
       Row(<< "pyproject.toml" >>,
           << ".venv", "venv", ".pytest_cache", ".mypy_cache", ".ruff_cache" >>,
           "venv", "uv sync / pip install"),
       Row(<< "setup.py" >>, << ".venv", "venv" >>, "venv", "pip install -e ."),
       Row(<< "requirements.txt" >>, << ".venv", "venv" >>, "venv",
           "pip install -r requirements.txt"),
       Row(<< "go.mod" >>, << "vendor" >>, "go", "go mod vendor"),
       Row(<< "build.gradle" >>, << "build", ".gradle" >>, "java", "gradle build"),
       Row(<< "pom.xml" >>, << "target" >>, "java", "mvn package"),
       Row(<< "*", ".csproj" >>, << "bin", "obj" >>, "dotnet", "dotnet build"),
       Row(<< "Package.swift" >>, << ".build" >>, "swift", "swift build"),
       Row(<< "Podfile" >>, << "Pods" >>, "ios", "pod install") >>

\* the marker files the explored projects can hold
ExploredMarkers ==
    { << "package.json" >>, << "yarn.lock" >>, << "Cargo.toml" >>,
      << "pom.xml" >>, << "pyproject.toml" >>, << "requirements.txt" >>,
      << "App", ".csproj" >> }

\* the artifact directories the explored projects can hold
ExploredDirs ==
    { "node_modules", "target", ".venv", "venv", ".pytest_cache", "bin", "obj" }

\* disk usage du -sk reports for an artifact directory, in bytes: a few
\* bytes of content, and the two multiples of 1024 around the floor
DirSizes == { 4096, 9999360, 10000384 }

\* size < 10 * 1e6
ArtifactFloor == 10000000

\* marker_lookup[name]: the rows of the marker, in table order
MarkerLookup(marker) == SelectSeq(BuildArtifacts, LAMBDA row : row.marker = marker)

\* s.endswith(suffix)
EndsWith(s, suffix) ==
    /\ Len(suffix) <= Len(s)
    /\ SubSeq(s, Len(s) - Len(suffix) + 1, Len(s)) = suffix

\* marker.replace("*", "")
WithoutStar(marker) == SelectSeq(marker, LAMBDA part : part # "*")

IsGlob(marker) == \E i \in 1..Len(marker) : marker[i] = "*"

\* the rows a found marker file matches: the exact name first, else the
\* first glob marker whose extension the name ends with
MatchedConfigs(marker_name) ==
    IF \E i \in 1..Len(BuildArtifacts) : BuildArtifacts[i].marker = marker_name
    THEN MarkerLookup(marker_name)
    ELSE LET globs == { i \in 1..Len(BuildArtifacts) :
                          /\ IsGlob(BuildArtifacts[i].marker)
                          /\ EndsWith(marker_name,
                                      WithoutStar(BuildArtifacts[i].marker)) }
         IN  IF globs = {} THEN << >>
             ELSE MarkerLookup(BuildArtifacts[Min(globs)].marker)

\* for artifact_name in artifact_dirs: the findings one row appends
RECURSIVE RowFindings(_, _, _)
RowFindings(row, names, dirs) ==
    IF names = << >> THEN << >>
    ELSE LET artifact_name == Head(names)
             rest == RowFindings(row, Tail(names), dirs)
         IN  IF artifact_name \notin DOMAIN dirs THEN rest
             ELSE IF IsSnoozed(artifact_name) THEN rest
             ELSE IF dirs[artifact_name] < ArtifactFloor THEN rest
             ELSE << [ target |-> artifact_name,
                       category |-> row.category,
                       size_bytes |-> dirs[artifact_name],
                       reason |-> row.restore_hint ] >> \o rest

\* for artifact_dirs, category, restore_hint in matched_configs
RECURSIVE ConfigsFindings(_, _)
ConfigsFindings(configs, dirs) ==
    IF configs = << >> THEN << >>
    ELSE RowFindings(Head(configs), Head(configs).artifact_dirs, dirs)
         \o ConfigsFindings(Tail(configs), dirs)

\* for marker_path in marker_files
RECURSIVE MarkerFindings(_, _)
MarkerFindings(marker_files, dirs) ==
    IF marker_files = << >> THEN << >>
    ELSE ConfigsFindings(MatchedConfigs(Head(marker_files)), dirs)
         \o MarkerFindings(Tail(marker_files), dirs)

ScanBuildArtifactsNoDedupe(marker_files, dirs) ==
    MarkerFindings(marker_files, dirs)

\* scan_build_artifacts: the list it saves and returns
ScanBuildArtifacts(marker_files, dirs) ==
    DedupeByTarget(MarkerFindings(marker_files, dirs), {})

ScanBuildArtifactsCall ==
    /\ env.op = "scan_build_artifacts"
    /\ out = NoOut
    /\ LET unique == ScanBuildArtifacts(env.marker_files, env.dirs)
       IN  /\ out' = Returned(unique)
           /\ cache' = [cache EXCEPT !["build_artifacts"] =
                                        PhaseFile("build_artifacts", unique)]
    /\ UNCHANGED <<enabled, scanfile, snoozeStore, snoozed, pc, idx, force,
                   last, resumed, env>>

\* the marker files of the project in the order the search lists them, and
\* the artifact directories it has with their disk usage
InitArtifacts ==
    /\ \E marker_files \in UNION { [1..k -> ExploredMarkers] : k \in 0..MaxMarkers } :
       \E present \in { D \in SUBSET ExploredDirs : Cardinality(D) <= MaxArtifactDirs } :
       \E dirs \in [present -> DirSizes] :
          env = [ op |-> "scan_build_artifacts", marker_files |-> marker_files,
                  dirs |-> dirs ]
    /\ out = NoOut
    /\ enabled = [ p \in PhaseNames |-> p \in Phases ]
    /\ cache = NoFiles
    /\ scanfile = AbsentReport
    /\ snoozeStore = {}
    /\ snoozed = {}
    /\ pc = "ready"
    /\ idx = 0
    /\ force = TRUE
    /\ last = NoCall
    /\ resumed = NoResume

NextArtifacts == ScanBuildArtifactsCall

SpecArtifacts == InitArtifacts /\ [][NextArtifacts]_vars

\* the table rows a marker file of the project stands for
RowOfMarker(row, marker_name) ==
    \/ row.marker = marker_name
    \/ /\ IsGlob(row.marker)
       /\ EndsWith(marker_name, WithoutStar(row.marker))

\* the table rows that list the directory and have a marker in the project
RowsFor(dir, marker_files) ==
    { i \in 1..Len(BuildArtifacts) :
         /\ \E j \in 1..Len(BuildArtifacts[i].artifact_dirs) :
               BuildArtifacts[i].artifact_dirs[j] = dir
         /\ \E k \in 1..Len(marker_files) :
               RowOfMarker(BuildArtifacts[i], marker_files[k]) }

\* C17: an artifact directory that a marker of the project maps to yields
\* no finding when its disk usage is below 10 MB and exactly one finding
\* when it is at or above, however many markers map to it; the finding has
\* the category and restore hint of a table row of one of those markers; a
\* directory no marker maps to yields none. package.json alone with a
\* node_modules at or above the floor gives one finding, node / npm install.
C17_OneFindingPerArtifactAboveFloor ==
    ( env.op = "scan_build_artifacts" /\ out # NoOut ) =>
        /\ \A dir \in ExploredDirs :
              LET hits == { i \in 1..Len(out.val) : out.val[i].target = dir }
                  rows == RowsFor(dir, env.marker_files)
              IN  IF /\ dir \in DOMAIN env.dirs
                     /\ env.dirs[dir] >= ArtifactFloor
                     /\ rows # {}
                  THEN /\ Cardinality(hits) = 1
                       /\ \A i \in hits :
                             /\ out.val[i].size_bytes = env.dirs[dir]
                             /\ \E r \in rows :
                                   /\ out.val[i].category = BuildArtifacts[r].category
                                   /\ out.val[i].reason = BuildArtifacts[r].restore_hint
                  ELSE hits = {}
        /\ \A i \in 1..Len(out.val) : out.val[i].target \in ExploredDirs
        /\ ( /\ env.marker_files = << << "package.json" >> >>
             /\ "node_modules" \in DOMAIN env.dirs
             /\ env.dirs["node_modules"] >= ArtifactFloor )
           => out.val = << [ target |-> "node_modules", category |-> "node",
                             size_bytes |-> env.dirs["node_modules"],
                             reason |-> "npm install" ] >>
        /\ cache["build_artifacts"] = PhaseFile("build_artifacts", out.val)

\* yarn.lock and package.json both map to a node_modules above the floor:
\* one finding, with the hint of the marker that was listed first
C17_Witness ==
    /\ env.op = "scan_build_artifacts"
    /\ out # NoOut
    /\ env.marker_files = << << "yarn.lock" >>, << "package.json" >> >>
    /\ "node_modules" \in DOMAIN env.dirs
    /\ env.dirs["node_modules"] >= ArtifactFloor
    /\ Len(out.val) = 1
    /\ out.val[1].category = "node"
    /\ out.val[1].reason = "yarn install"

---------------------------------------------------------------------------
(* The per-file scanners on a file with an apparent size and a disk usage *)

\* sizes in units of 1000 bytes: around the placeholder limit of 1 MB, the
\* log floor of 100 MB and the large-file floor of 1 GB
FileSizes == { 0, 4, 1000, 1001, 50000, 100000, 200000, 1000000, 2000000 }

\* st_size and st_blocks * 512 of a file
Files == [ apparent : FileSizes, blocks : FileSizes ]

\* _is_cloud_only: apparent_size > 1_000_000 and
\* actual_blocks < apparent_size * 0.01
IsCloudOnly(file) ==
    file.apparent > 1000 /\ file.blocks * 100 < file.apparent

\* min_gb * 1e9 and min_mb * 1e6 of the default thresholds
LargeFileMin == DefaultConfig.thresholds.val.large_file_min_gb * 1000000
LogFileMin == DefaultConfig.thresholds.val.log_file_min_mb * 1000

FileTarget == << "~", "/", "f" >>

\* scan_large_files on a directory that holds the one file: the search
\* lists files of an apparent size of min_gb or more
ScanLargeFiles(file) ==
    IF file.apparent < LargeFileMin THEN << >>
    ELSE IF file.apparent > 1000 /\ file.blocks * 100 < file.apparent THEN << >>
    ELSE IF file.blocks < LargeFileMin THEN << >>
    ELSE IF IsSnoozed(FileTarget) THEN << >>
    ELSE << [ target |-> FileTarget, size_bytes |-> file.blocks ] >>

\* scan_logs on a log directory that holds the one file
ScanLogs(file) ==
    IF file.apparent < LogFileMin THEN << >>
    ELSE IF IsSnoozed(FileTarget) THEN << >>
    ELSE << [ target |-> FileTarget, size_bytes |-> file.apparent ] >>

ScanFileCall ==
    /\ env.op = "scan_file"
    /\ out = NoOut
    /\ LET findings == IF env.phase = "large_files" THEN ScanLargeFiles(env.file)
                       ELSE ScanLogs(env.file)
       IN  /\ out' = Returned(findings)
           /\ cache' = [cache EXCEPT ![env.phase] = PhaseFile(env.phase, findings)]
    /\ UNCHANGED <<enabled, scanfile, snoozeStore, snoozed, pc, idx, force,
                   last, resumed, env>>

InitCloud ==
    /\ \E phase \in {"large_files", "logs"}, file \in Files :
          env = [ op |-> "scan_file", phase |-> phase, file |-> file ]
    /\ out = NoOut
    /\ enabled = [ p \in PhaseNames |-> p \in Phases ]
    /\ cache = NoFiles
    /\ scanfile = AbsentReport
    /\ snoozeStore = {}
    /\ snoozed = {}
    /\ pc = "ready"
    /\ idx = 0
    /\ force = TRUE
    /\ last = NoCall
    /\ resumed = NoResume

NextCloud == ScanFileCall

SpecCloud == InitCloud /\ [][NextCloud]_vars

\* C18: no scanner emits a finding for a cloud placeholder, and a finding is
\* emitted only for a file whose disk usage reaches the floor of the phase.
C18_CloudPlaceholderExcluded ==
    ( env.op = "scan_file" /\ out # NoOut ) =>
        /\ IsCloudOnly(env.file) => out.val = << >>
        /\ out.val # << >> =>
              env.file.blocks >= ( IF env.phase = "large_files" THEN LargeFileMin
                                   ELSE LogFileMin )

---------------------------------------------------------------------------
(* _needs_sudo and _get_command_for_action of the review application *)

\* a string is the sequence of its parts: separators and name pieces, so
\* that "/usr" is a string prefix of "/usrdata" but not its parent

\* str(Path.home()): a user's home directory, and the one of root
Homes == { << "/", "Users", "/", "u" >>, << "/", "var", "/", "root" >> }

\* system_paths
SystemPaths ==
    << << "/", "Applications" >>, << "/", "Library" >>, << "/", "usr" >>,
       << "/", "opt" >>, << "/", "var" >>, << "/", "private" >> >>

\* the targets of the explored findings
SudoTargets ==
    { << "~" >>, << "~", "/", "p" >>,
      << "/", "Users", "/", "u", "/", "p" >>,
      << "/", "Users", "/", "u", "2", "/", "p" >>,
      << "/", "Volumes", "/", "x" >>,
      << "/", "usr", "data", "/", "x" >>,
      << "/", "opt", "ional", "/", "x" >>,
      << "ollama", ":", "m", ":", "t" >>,
      << "huggingface", ":", "o", "/", "m" >> }
    \cup { SystemPaths[i] : i \in 1..Len(SystemPaths) }
    \cup { SystemPaths[i] \o << "/", "x" >> : i \in 1..Len(SystemPaths) }

IsVirtualTarget(target) == Head(target) \in { "ollama", "huggingface" }

\* the actions the review can hold for a finding: the ids of the options
\* its scanner gives it, and its recommendation
ActionsFor(target) ==
    IF Head(target) = "ollama" THEN { "ollama-rm", "delete", "skip" }
    ELSE IF Head(target) = "huggingface" THEN { "hf-delete", "delete", "skip" }
    ELSE { "delete", "compress", "git-gc", "skip" }

\* expanded: "~" at the front is replaced by the home directory
Expanded(target, home) ==
    IF StartsWith(target, << "~" >>) THEN home \o Tail(target) ELSE target

\* ":" in target
HasColon(target) == \E i \in 1..Len(target) : target[i] = ":"

\* _needs_sudo
NeedsSudo(target, home) ==
    LET expanded == Expanded(target, home)
    IN  IF StartsWith(expanded, home) THEN FALSE
        ELSE IF HasColon(target) /\ ~StartsWith(target, << "/" >>) THEN FALSE
        ELSE \E i \in 1..Len(SystemPaths) : StartsWith(expanded, SystemPaths[i])

\* _get_command_for_action: the program the command runs, whether the
\* command starts with sudo, and the needs_sudo flag returned with it
GetCommandForAction(target, action, home) ==
    LET sudo == NeedsSudo(target, home)
    IN  CASE action = "ollama-rm" ->
                [ run |-> "ollama rm", prefix |-> FALSE, needs_sudo |-> FALSE ]
          [] action = "hf-delete" ->
                [ run |-> "rm -rf", prefix |-> FALSE, needs_sudo |-> FALSE ]
          [] action = "git-gc" ->
                [ run |-> "git gc", prefix |-> sudo, needs_sudo |-> sudo ]
          [] action = "compress" ->
                [ run |-> "zip", prefix |-> sudo, needs_sudo |-> sudo ]
          [] OTHER ->
                [ run |-> "rm -rf", prefix |-> sudo, needs_sudo |-> sudo ]

\* the confirmation screen asks for the command of a marked item
GetCommandCall ==
    /\ env.op = "get_command"
    /\ out = NoOut
    /\ out' = Returned(GetCommandForAction(env.target, env.action, env.home))
    /\ UNCHANGED <<enabled, cache, scanfile, snoozeStore, snoozed, pc, idx,
                   force, last, resumed, env>>

InitSudo ==
    /\ \E home \in Homes, target \in SudoTargets :
       \E action \in ActionsFor(target) :
          env = [ op |-> "get_command", target |-> target, action |-> action,
                  home |-> home ]
    /\ out = NoOut
    /\ enabled = [ p \in PhaseNames |-> p \in Phases ]
    /\ cache = NoFiles
    /\ scanfile = AbsentReport
    /\ snoozeStore = {}
    /\ snoozed = {}
    /\ pc = "none"
    /\ idx = 0
    /\ force = FALSE
    /\ last = NoCall
    /\ resumed = NoResume

NextSudo == GetCommandCall

SpecSudo == InitSudo /\ [][NextSudo]_vars

\* path is the directory dir or lies below it
IsAtOrBelow(path, dir) == path = dir \/ IsDescendant(path, dir)

\* the path a target names: "~" stands for the home directory
Resolved(target, home) ==
    IF Head(target) = "~" THEN home \o Tail(target) ELSE target

\* C19: the command of an action requires elevation exactly when the target
\* is no virtual target and names a path outside the home directory that is
\* a recognized system location or lies below one.
C19_SudoExactlyForSystemPaths ==
    ( env.op = "get_command" /\ out # NoOut ) =>
        ( out.val.needs_sudo
          <=> ( /\ ~IsVirtualTarget(env.target)
                /\ ~IsAtOrBelow(Resolved(env.target, env.home), env.home)
                /\ \E i \in 1..Len(SystemPaths) :
                      IsAtOrBelow(Resolved(env.target, env.home), SystemPaths[i]) ) )

---------------------------------------------------------------------------
(* _get_dir_size on a directory tree *)

\* most entries path.rglob("*") yields
MaxEntries == 3
\* largest st_blocks of a file
MaxBlocks == 1

\* an entry of the tree: a regular file with its st_blocks; a directory; a
\* file that vanishes between is_file() and stat(), so that stat raises
\* OSError; an entry in a directory without search permission, whose stat
\* is denied
TreeEntries ==
    { [ kind |-> "file", st_blocks |-> b ] : b \in 0..MaxBlocks }
    \cup { [ kind |-> "dir" ], [ kind |-> "vanished" ], [ kind |-> "denied" ] }

Trees == UNION { [1..k -> TreeEntries] : k \in 0..MaxEntries }

SizeResult(total_size, file_count) ==
    [ total_size |-> total_size, file_count |-> file_count ]

\* the for loop of _get_dir_size: entry.is_file() is outside the inner try;
\* for a denied entry it raises PermissionError (pathlib re-raises EACCES),
\* which the except clause around the loop catches, or, where the
\* interpreter's is_file swallows the error, it is False
RECURSIVE GetDirSizeLoop(_, _, _, _)
GetDirSizeLoop(entries, total_size, file_count, is_file_raises) ==
    IF entries = << >> THEN SizeResult(total_size, file_count)
    ELSE LET entry == Head(entries)
         IN  CASE entry.kind = "file" ->
                    GetDirSizeLoop(Tail(entries),
                                   total_size + entry.st_blocks * 512,
                                   file_count + 1, is_file_raises)
               [] entry.kind = "dir" ->
                    GetDirSizeLoop(Tail(entries), total_size, file_count,
                                   is_file_raises)
               [] entry.kind = "vanished" ->
                    GetDirSizeLoop(Tail(entries), total_size, file_count,
                                   is_file_raises)
               [] entry.kind = "denied" ->
                    IF is_file_raises THEN SizeResult(total_size, file_count)
                    ELSE GetDirSizeLoop(Tail(entries), total_size, file_count,
                                        is_file_raises)

\* _get_dir_size
GetDirSize(entries, is_file_raises) ==
    GetDirSizeLoop(entries, 0, 0, is_file_raises)

GetDirSizeCall ==
    /\ env.op = "get_dir_size"
    /\ out = NoOut
    /\ out' = Returned(GetDirSize(env.entries, env.is_file_raises))
    /\ UNCHANGED <<enabled, cache, scanfile, snoozeStore, snoozed, pc, idx,
                   force, last, resumed, env>>

InitDirSize ==
    /\ \E entries \in Trees, is_file_raises \in BOOLEAN :
          env = [ op |-> "get_dir_size", entries |-> entries,
                  is_file_raises |-> is_file_raises ]
    /\ out = NoOut
    /\ enabled = [ p \in PhaseNames |-> p \in Phases ]
    /\ cache = NoFiles
    /\ scanfile = AbsentReport
    /\ snoozeStore = {}
    /\ snoozed = {}
    /\ pc = "ready"
    /\ idx = 0
    /\ force = FALSE
    /\ last = NoCall
    /\ resumed = NoResume

NextDirSize == GetDirSizeCall

SpecDirSize == InitDirSize /\ [][NextDirSize]_vars

\* positions of the regular files of a tree whose stat succeeds
RegularFiles(entries) == { i \in 1..Len(entries) : entries[i].kind = "file" }

RECURSIVE SumBlocks(_, _)
SumBlocks(entries, S) ==
    IF S = {} THEN 0
    ELSE LET i == CHOOSE i \in S : TRUE
         IN  entries[i].st_blocks + SumBlocks(entries, S \ {i})

\* C20: the file count is the number of regular files of the tree and the
\* size is 512 times the sum of their st_blocks, not negative; an empty
\* directory gives (0, 0); entries whose stat or traversal fails are left
\* out and do not keep any other entry from being counted.
C20_CountsEveryRegularFile ==
    ( env.op = "get_dir_size" /\ out # NoOut ) =>
        /\ out.val.file_count = Cardinality(RegularFiles(env.entries))
        /\ out.val.total_size =
              512 * SumBlocks(env.entries, RegularFiles(env.entries))
        /\ out.val.total_size >= 0
        /\ env.entries = << >> => out.val = SizeResult(0, 0)

---------------------------------------------------------------------------
(* _format_size on a byte count *)

\* largest exponent e of the explored byte counts m * 1024^e
MaxExp == 5

\* a byte count: size_bytes = m * 1024^e (TLC's integers end at 2^31)
Bytes(m, e) == [ m |-> m, e |-> e ]

\* the explored counts: around every unit limit, the ties and the roundings
\* up of the first decimal, and every power of 1024 up to 1024^MaxExp
ByteCounts ==
    { Bytes(m, 0) : m \in { 0, 1, 500, 1023, 1024, 1025, 1075, 1280, 1536,
                            2048, 1047552, 1048524, 1048525, 1048575,
                            1048576, 1048577, 1572864 } }
    \cup { Bytes(m, e) : m \in { 1, 500, 1023, 1024, 1025, 1536, 2048 },
                         e \in 1..MaxExp }

RECURSIVE Pow1024(_)
Pow1024(k) == IF k = 0 THEN 1 ELSE 1024 * Pow1024(k - 1)

\* a * 1024^i <= c * 1024^j, for a and c below 2^30
LeqScaled(a, i, c, j) ==
    IF a = 0 THEN TRUE
    ELSE IF i >= j
         THEN i - j < 3 /\ a <= c \div Pow1024(i - j)
         ELSE IF j - i >= 3 THEN c >= 1
              ELSE (a + Pow1024(j - i) - 1) \div Pow1024(j - i) <= c

\* ["B", "KB", "MB", "GB", "TB"]
Units == << "B", "KB", "MB", "GB", "TB" >>

\* size_bytes < 1024 after k divisions by 1024 (which are exact on floats)
Below1024(b, k) == ~LeqScaled(1, k + 1, b.m, b.e)

\* what f"{size_bytes:.1f} {unit}" prints: the digits in front of the
\* point, the one digit behind it, the unit
Text(tenths, unit) ==
    [ whole |-> tenths \div 10, frac |-> tenths % 10, unit |-> unit ]

TenthsTruncated(b, k) ==
    IF b.e >= k THEN 10 * b.m * Pow1024(b.e - k)
    ELSE (10 * b.m) \div Pow1024(k - b.e)

\* ".1f" on size_bytes after k divisions: the nearest tenth, a tie going to
\* the even digit
Tenths(b, k) ==
    IF b.e >= k THEN 10 * b.m * Pow1024(b.e - k)
    ELSE LET d == Pow1024(k - b.e)
             q == (10 * b.m) \div d
             r == (10 * b.m) % d
         IN  IF 2 * r > d \/ (2 * r = d /\ q % 2 = 1) THEN q + 1 ELSE q

\* the for loop of _format_size at its k-th unit; the return after it
RECURSIVE FormatSizeLoop(_, _)
FormatSizeLoop(b, k) ==
    IF k = Len(Units) THEN Text(Tenths(b, k), "PB")
    ELSE IF Below1024(b, k) THEN Text(Tenths(b, k), Units[k + 1])
    ELSE FormatSizeLoop(b, k + 1)

FormatSize(size_bytes) == FormatSizeLoop(size_bytes, 0)

FormatSizeCall ==
    /\ env.op = "format_size"
    /\ out = NoOut
    /\ out' = Returned(FormatSize(env.size_bytes))
    /\ UNCHANGED <<enabled, cache, scanfile, snoozeStore, snoozed, pc, idx,
                   force, last, resumed, env>>

InitFormat ==
    /\ \E b \in ByteCounts : env = [ op |-> "format_size", size_bytes |-> b ]
    /\ out = NoOut
    /\ enabled = [ p \in PhaseNames |-> p \in Phases ]
    /\ cache = NoFiles
    /\ scanfile = AbsentReport
    /\ snoozeStore = {}
    /\ snoozed = {}
    /\ pc = "ready"
    /\ idx = 0
    /\ force = FALSE
    /\ last = NoCall
    /\ resumed = NoResume

NextFormat == FormatSizeCall

SpecFormat == InitFormat /\ [][NextFormat]_vars

\* the names of the powers of 1024, in order
UnitNames == << "B", "KB", "MB", "GB", "TB", "PB" >>

UnitPower(unit) == CHOOSE k \in 0..5 : UnitNames[k + 1] = unit

\* the largest k <= top with 1024^k <= b, 0 when there is none
LargestPower(b, top) ==
    LET fit == { k \in 0..top : LeqScaled(1, k, b.m, b.e) }
    IN  IF fit = {} THEN 0 ELSE CHOOSE k \in fit : \A j \in fit : j <= k

TenthsOf(text) == 10 * text.whole + text.frac

\* text is b / 1024^k to one decimal: it is off by at most half a tenth
PrintsQuotient(text, b, k) ==
    IF b.e >= k THEN TenthsOf(text) = 10 * b.m * Pow1024(b.e - k)
    ELSE LET d == Pow1024(k - b.e)
             diff == 2 * (10 * b.m - TenthsOf(text) * d)
         IN  diff <= d /\ 0 - diff <= d

SameBytes(b, m, e) ==
    LeqScaled(b.m, b.e, m, e) /\ LeqScaled(m, e, b.m, b.e)

\* the value a text stands for does not fall when the byte count grows
Monotonic ==
    \A smaller \in ByteCounts :
       LeqScaled(smaller.m, smaller.e, env.size_bytes.m, env.size_bytes.e)
       => LeqScaled(TenthsOf(FormatSize(smaller)),
                    UnitPower(FormatSize(smaller).unit),
                    TenthsOf(out.val), UnitPower(out.val.unit))

FormatExamples ==
    /\ SameBytes(env.size_bytes, 500, 0) => out.val = Text(5000, "B")
    /\ SameBytes(env.size_bytes, 1, 1) => out.val = Text(10, "KB")
    /\ SameBytes(env.size_bytes, 1, 2) => out.val = Text(10, "MB")
    /\ SameBytes(env.size_bytes, 1, 3) => out.val = Text(10, "GB")

UnitCorrect(top) ==
    LET k == LargestPower(env.size_bytes, top)
    IN  /\ out.val.unit = UnitNames[k + 1]
        /\ PrintsQuotient(out.val, env.size_bytes, k)

\* C21 as stated: the unit is the largest power of 1024 among B, KB, MB, GB
\* and TB that does not exceed the byte count, the text is the count
\* divided by it to one decimal, the four examples come out as written and
\* the value of the text is monotonic in the count.
C21_UnitAmongBToTB ==
    (env.op = "format_size" /\ out # NoOut)
    => ( /\ out.kind = "returned"
         /\ UnitCorrect(4)
         /\ FormatExamples
         /\ Monotonic )

\* C21 amended: the same with PB as a sixth unit, used from 1024^5 bytes on.
C21_UnitAmongBToPB ==
    (env.op = "format_size" /\ out # NoOut)
    => ( /\ out.kind = "returned"
         /\ UnitCorrect(5)
         /\ FormatExamples
         /\ Monotonic )

\* one byte less than 1 MB is printed as 1024.0 KB
C21_Witness ==
    /\ env.op = "format_size"
    /\ env.size_bytes = Bytes(1048575, 0)
    /\ out = Returned(Text(10240, "KB"))

---------------------------------------------------------------------------
(* The staleness scan_build_artifacts puts on a finding *)

\* most days since the last access of the marker file or artifact directory
MaxAge == 3
\* largest configured thresholds.stale_days
MaxStaleDays == 2

\* path.stat(): the days since st_atime, or the OSError it raises
StatOk(days) == [ ok |-> TRUE, atime_days |-> days ]
StatFails == [ ok |-> FALSE ]

\* _get_staleness_days: (now - atime).days, 0 on OSError
GetStalenessDays(stat) == IF stat.ok THEN stat.atime_days ELSE 0

\* the staleness_days and recommendation fields of the finding that
\* scan_build_artifacts makes for an artifact directory of a marker's project
ArtifactStaleness(marker_stat, artifact_stat, stale_days) ==
    LET staleness == GetStalenessDays(artifact_stat)
    IN  [ staleness_days |-> staleness,
          recommendation |-> StaleOrSkip([ staleness |-> staleness ], stale_days) ]

ArtifactStalenessCall ==
    /\ env.op = "artifact_staleness"
    /\ out = NoOut
    /\ out' = Returned(ArtifactStaleness(env.marker, env.artifact, env.stale_days))
    /\ UNCHANGED <<enabled, cache, scanfile, snoozeStore, snoozed, pc, idx,
                   force, last, resumed, env>>

InitStaleness ==
    /\ \E marker \in { StatOk(d) : d \in 0..MaxAge },
          artifact \in { StatOk(d) : d \in 0..MaxAge } \cup {StatFails},
          stale_days \in 0..MaxStaleDays :
          env = [ op |-> "artifact_staleness", marker |-> marker,
                  artifact |-> artifact, stale_days |-> stale_days ]
    /\ out = NoOut
    /\ enabled = [ p \in PhaseNames |-> p \in Phases ]
    /\ cache = NoFiles
    /\ scanfile = AbsentReport
    /\ snoozeStore = {}
    /\ snoozed = {}
    /\ pc = "ready"
    /\ idx = 0
    /\ force = TRUE
    /\ last = NoCall
    /\ resumed = NoResume

NextStaleness == ArtifactStalenessCall

SpecStaleness == InitStaleness /\ [][NextStaleness]_vars

\* C22: a build-artifact finding recommends delete exactly when the marker
\* file was last touched more than stale_days days ago, and skip otherwise.
C22_StalenessOfTheMarker ==
    (env.op = "artifact_staleness" /\ out # NoOut)
    => ( /\ out.val.recommendation \in {"delete", "skip"}
         /\ out.val.recommendation = "delete"
            <=> env.marker.atime_days > env.stale_days )

---------------------------------------------------------------------------
(* scan_git_repos on the repositories the search finds *)

\* most .git directories the search finds
MaxRepos == 2

\* disk usage of a .git directory in bytes, around the floor of 100 MB
RepoSizes == { 99999999, 100000000, 250000000 }

GitFloor == 100000000

\* what the loose-object query of a repository comes to: count-objects
\* prints "count: n"; the run times out; git exits non-zero with nothing on
\* stdout; there is no git executable; the count line holds no number; the
\* repository has no objects directory and the query is not made
Counted(n) == [ kind |-> "count", n |-> n ]
QueryOutcomes ==
    { Counted(n) : n \in { 0, 1000, 1001, 5000, 5001 } }
    \cup { [ kind |-> k ] :
            k \in { "timeout", "nonzero_exit", "missing_git", "unparsable",
                    "no_objects_dir" } }

\* the .git directories in the order the search lists them
GitTargets == << TProj, TProj2, TChild, TGrand >>

Repos == [ size : RepoSizes, query : QueryOutcomes ]

\* the value loose_objects has after the try statement, or the exception
\* that leaves it: only TimeoutExpired and SubprocessError are caught
CountLooseObjects(query) ==
    CASE query.kind = "count"          -> Returned(query.n)
      [] query.kind = "no_objects_dir" -> Returned(0)
      [] query.kind = "timeout"        -> Returned(0)
      [] query.kind = "nonzero_exit"   -> Returned(0)
      [] query.kind = "missing_git"    -> Raised("FileNotFoundError")
      [] query.kind = "unparsable"     -> Raised("ValueError")

\* int(size * 0.4), int(size * 0.2)
TenthsOfSize(size, tenths) == (size * tenths) \div 10

\* the finding of one repository
GitFinding(target, size, loose_objects) ==
    LET gc_savings == IF loose_objects > 1000 THEN TenthsOfSize(size, 4)
                      ELSE TenthsOfSize(size, 2)
    IN  [ target |-> target,
          size_bytes |-> size,
          options |-> << [ id |-> "git-gc", reclaim_bytes |-> gc_savings,
                           reversible |-> FALSE ] >>,
          recommendation |-> IF loose_objects > 5000 THEN "git-gc"
                             ELSE IF loose_objects > 1000 THEN "git-gc"
                             ELSE "skip",
          loose_objects |-> loose_objects,
          gc_potential_bytes |-> gc_savings ]

\* for git_dir in git_dirs, from the i-th directory on
RECURSIVE ScanGitLoop(_, _, _)
ScanGitLoop(repos, i, findings) ==
    IF i > Len(repos) THEN Returned(findings)
    ELSE IF IsSnoozed(GitTargets[i]) THEN ScanGitLoop(repos, i + 1, findings)
    ELSE IF repos[i].size < GitFloor THEN ScanGitLoop(repos, i + 1, findings)
    ELSE LET loose == CountLooseObjects(repos[i].query)
         IN  IF loose.kind = "raised" THEN loose
             ELSE ScanGitLoop(repos, i + 1,
                     Append(findings,
                            GitFinding(GitTargets[i], repos[i].size, loose.val)))

ScanGitRepos(repos) == ScanGitLoop(repos, 1, << >>)

\* run_phase("git_repos") with force: the scanner, which saves its result
\* as its last statement
ScanGitReposCall ==
    /\ env.op = "scan_git_repos"
    /\ out = NoOut
    /\ out' = ScanGitRepos(env.repos)
    /\ cache' = IF out'.kind = "returned"
                THEN [cache EXCEPT !["git_repos"] = PhaseFile("git_repos", out'.val)]
                ELSE cache
    /\ UNCHANGED <<enabled, scanfile, snoozeStore, snoozed, pc, idx, force,
                   last, resumed, env>>

InitGit ==
    /\ \E repos \in UNION { [1..k -> Repos] : k \in 0..MaxRepos } :
          env = [ op |-> "scan_git_repos", repos |-> repos ]
    /\ out = NoOut
    /\ enabled = [ p \in PhaseNames |-> p \in Phases ]
    /\ cache = NoFiles
    /\ scanfile = AbsentReport
    /\ snoozeStore = {}
    /\ snoozed = {}
    /\ pc = "ready"
    /\ idx = 0
    /\ force = TRUE
    /\ last = NoCall
    /\ resumed = NoResume

NextGit == ScanGitReposCall

SpecGit == InitGit /\ [][NextGit]_vars

\* C23: every git finding recommends git-gc from 1000 loose objects on and
\* skip below; the reclaim of its git-gc option and its gc_potential_bytes
\* are 40% of its size from 5000 loose objects on and 20% below.
C23_TiersOfLooseObjects ==
    (env.op = "scan_git_repos" /\ out.kind = "returned")
    => \A i \in 1..Len(out.val) :
          LET f == out.val[i]
              estimate == IF f.loose_objects >= 5000
                          THEN TenthsOfSize(f.size_bytes, 4)
                          ELSE TenthsOfSize(f.size_bytes, 2)
          IN  /\ f.recommendation =
                    (IF f.loose_objects >= 1000 THEN "git-gc" ELSE "skip")
              /\ f.options[1].id = "git-gc"
              /\ f.options[1].reclaim_bytes = estimate
              /\ f.gc_potential_bytes = estimate

\* the repositories of the search that are large enough for a finding
Evaluated(repos) == { i \in 1..Len(repos) : repos[i].size >= GitFloor }

QueryFailed(query) == query.kind \notin {"count", "no_objects_dir"}

\* C24: whatever the loose-object queries come to, the scan returns one
\* finding for every repository above the floor, in search order, with zero
\* loose objects where the query failed, and the result is saved.
C24_QueryFailureTolerated ==
    (env.op = "scan_git_repos" /\ out # NoOut)
    => ( /\ out.kind = "returned"
         /\ Len(out.val) = Cardinality(Evaluated(env.repos))
         /\ \A i \in Evaluated(env.repos) :
               \E j \in 1..Len(out.val) :
                  /\ out.val[j].target = GitTargets[i]
                  /\ QueryFailed(env.repos[i].query)
                     => out.val[j].loose_objects = 0
         /\ cache["git_repos"] = PhaseFile("git_repos", out.val) )

---------------------------------------------------------------------------
(* _get_dir_size_fast on a directory tree *)

\* largest size du reports, in KB
MaxKb == 1
\* most lines the file-count probe prints
MaxFdLines == 1

\* what the run of du comes to: it prints a size in KB; there is no du
\* executable; it exits non-zero; it times out; its first word is not a
\* number; it prints nothing
DuOutcomes ==
    { [ kind |-> "size", size_kb |-> k ] : k \in 0..MaxKb }
    \cup { [ kind |-> k ] :
            k \in { "missing_du", "nonzero_exit", "timeout", "unparsable",
                    "no_output" } }

\* what the file-count probe comes to: _has_fd() is False and it is not
\* run; it prints one line per file; it exits non-zero with nothing on
\* stdout; it times out
FdOutcomes ==
    { [ kind |-> "lines", n |-> n ] : n \in 0..MaxFdLines }
    \cup { [ kind |-> k ] : k \in { "no_fd", "nonzero_exit", "timeout" } }

\* the try statement of _get_dir_size_fast: the tuple it returns, the
\* exception that leaves it, or the pass of its except clause
FastPath(du, fd) ==
    CASE du.kind = "missing_du"   -> Raised("FileNotFoundError")
      [] du.kind = "timeout"      -> [ kind |-> "pass" ]
      [] du.kind = "unparsable"   -> [ kind |-> "pass" ]
      [] du.kind = "no_output"    -> [ kind |-> "pass" ]
      [] du.kind = "nonzero_exit" -> [ kind |-> "pass" ]
      [] du.kind = "size" ->
            CASE fd.kind = "timeout"      -> [ kind |-> "pass" ]
              [] fd.kind = "no_fd"        -> Returned(SizeResult(du.size_kb * 1024, 0))
              [] fd.kind = "nonzero_exit" -> Returned(SizeResult(du.size_kb * 1024, 0))
              [] fd.kind = "lines"        -> Returned(SizeResult(du.size_kb * 1024, fd.n))

\* _get_dir_size_fast: the fast path, then "Fallback to slow Python method"
GetDirSizeFast(du, fd, entries, is_file_raises) ==
    LET fast == FastPath(du, fd)
    IN  IF fast.kind = "pass" THEN Returned(GetDirSize(entries, is_file_raises))
        ELSE fast

GetDirSizeFastCall ==
    /\ env.op = "get_dir_size_fast"
    /\ out = NoOut
    /\ out' = GetDirSizeFast(env.du, env.fd, env.entries, env.is_file_raises)
    /\ UNCHANGED <<enabled, cache, scanfile, snoozeStore, snoozed, pc, idx,
                   force, last, resumed, env>>

InitDirSizeFast ==
    /\ \E du \in DuOutcomes, fd \in FdOutcomes, entries \in Trees,
          is_file_raises \in BOOLEAN :
          env = [ op |-> "get_dir_size_fast", du |-> du, fd |-> fd,
                  entries |-> entries, is_file_raises |-> is_file_raises ]
    /\ out = NoOut
    /\ enabled = [ p \in PhaseNames |-> p \in Phases ]
    /\ cache = NoFiles
    /\ scanfile = AbsentReport
    /\ snoozeStore = {}
    /\ snoozed = {}
    /\ pc = "ready"
    /\ idx = 0
    /\ force = FALSE
    /\ last = NoCall
    /\ resumed = NoResume

NextDirSizeFast == GetDirSizeFastCall

SpecDirSizeFast == InitDirSizeFast /\ [][NextDirSizeFast]_vars

\* the fast path is unavailable or fails
FastPathFails ==
    \/ env.du.kind # "size"
    \/ env.fd.kind # "lines"

\* C25: when du or the file-count probe is unavailable or fails,
\* _get_dir_size_fast returns what _get_dir_size returns on the directory,
\* and it never raises.
C25_FallsBackToExhaustive ==
    (env.op = "get_dir_size_fast" /\ out # NoOut)
    => ( /\ out.kind = "returned"
         /\ FastPathFails
            => out.val = GetDirSize(env.entries, env.is_file_raises) )

---------------------------------------------------------------------------
(* Properties of the merged report across scans *)

\* the lists that hold the same findings as list, each as often, in any order
Reorderings(list) ==
    { [ i \in 1..Len(list) |-> list[p[i]] ] : p \in Permutations(1..Len(list)) }

\* a state directory whose only phase file holds list
OnlyLargeFiles(list) ==
    [ NoFiles EXCEPT !["large_files"] = PhaseFile("large_files", list) ]

\* the findings of the phase files, in the order merge_results loads them
Loaded == LoadAll(cache, 1)

SameSurvivors(list) ==
    Elements(SortedUnique(OnlyLargeFiles(list))) = Elements(scanfile.findings)

SameOrder(list) ==
    SortedUnique(OnlyLargeFiles(list)) = scanfile.findings

\* C26: the report of a merge holds the findings, in the order, that a merge
\* would give for the same findings discovered in any other order.
C26_ReportIndependentOfScanOrder ==
    (pc = "done" /\ scanfile.kind = "report")
    => \A list \in Reorderings(Loaded) :
          SameSurvivors(list) /\ SameOrder(list)

\* the findings list, total_reclaimable_bytes and item_count of a report
ReportBody(file) ==
    << file.findings, file.total_reclaimable_bytes, file.item_count >>

\* C27: a merge leaves every phase cache file as it was and writes the
\* report of those files, so a merge that finds the report of the same
\* files already in place writes the same findings list,
\* total_reclaimable_bytes and item_count again.
C27_MergeOnlyReadsTheCaches ==
    [][ ( pc # "done" /\ pc' = "done" )
        => ( /\ cache' = cache
             /\ scanfile'.kind = "report"
             /\ LET again == ReportBody(MergeReport(cache))
                IN  /\ ReportBody(scanfile') = again
                    /\ ( scanfile.kind = "report" /\ ReportBody(scanfile) = again )
                       => ReportBody(scanfile') = ReportBody(scanfile) ) ]_vars

\* a process has merged again what an earlier merge had reported: every
\* target of its report was snoozed from the earlier report, so no phase
\* holding one of them has been scanned in between
C27_Witness ==
    /\ pc = "done"
    /\ scanfile.kind = "report"
    /\ Report # << >>
    /\ snoozed = ReportTargets
    /\ \E p \in Phases : HasFile(cache, p) /\ cache[p].findings # << >>

---------------------------------------------------------------------------
(* The review application: marks, snoozes and execute *)

\* number of findings the review application lists
MaxListed == 2

\* self.findings: the targets of scan.json in display order
ListedTargets == << TProj2, TChild, TGrand, TProj >>

\* finding.get("recommendation") of the i-th listed finding
ListedRecommendation(i) == IF i % 2 = 0 THEN "skip" ELSE "delete"

\* a FindingItem of the ListView, or none while the finding is hidden
NoItem == [ shown |-> FALSE ]
Item(is_marked, is_snoozed) ==
    [ shown |-> TRUE, marked |-> is_marked, snoozed |-> is_snoozed ]

\* an entry of self.item_state
ItemState(is_marked, is_snoozed) ==
    [ marked |-> is_marked, snoozed |-> is_snoozed ]

\* refresh_list: one new widget for every finding that is not snoozed and,
\* with hide_skip, not recommended to be skipped, restored from item_state
RefreshList(item_state, hide_skip) ==
    [ i \in DOMAIN item_state |->
        IF item_state[i].snoozed THEN NoItem
        ELSE IF hide_skip /\ ListedRecommendation(i) = "skip" THEN NoItem
        ELSE Item(item_state[i].marked, item_state[i].snoozed) ]

\* on_mount with the snooze set of snoozed.json
Mounted(snoozed_targets) ==
    LET item_state == [ i \in 1..MaxListed |->
                          ItemState(FALSE, ListedTargets[i] \in snoozed_targets) ]
    IN  [ op |-> "review", hide_skip |-> FALSE, item_state |-> item_state,
          items |-> RefreshList(item_state, FALSE) ]

\* space on the highlighted item: FindingItem.toggle_mark, then
\* action_toggle_mark stores item.marked
ToggleMark(i) ==
    /\ env.op = "review"
    /\ env.items[i].shown
    /\ LET is_marked == ~env.items[i].marked
           is_snoozed == IF is_marked THEN FALSE ELSE env.items[i].snoozed
       IN  env' = [env EXCEPT !.items[i] = Item(is_marked, is_snoozed),
                              !.item_state[i].marked = is_marked]
    /\ UNCHANGED <<enabled, cache, scanfile, snoozeStore, snoozed, pc, idx,
                   force, last, resumed, out>>

\* z on the highlighted item: FindingItem.toggle_snooze, then
\* action_toggle_snooze stores item.snoozed
ToggleSnooze(i) ==
    /\ env.op = "review"
    /\ env.items[i].shown
    /\ LET is_snoozed == ~env.items[i].snoozed
           is_marked == IF is_snoozed THEN FALSE ELSE env.items[i].marked
       IN  env' = [env EXCEPT !.items[i] = Item(is_marked, is_snoozed),
                              !.item_state[i].snoozed = is_snoozed]
    /\ UNCHANGED <<enabled, cache, scanfile, snoozeStore, snoozed, pc, idx,
                   force, last, resumed, out>>

\* s: action_toggle_hide_skip
ToggleHideSkip ==
    /\ env.op = "review"
    /\ env' = [env EXCEPT !.hide_skip = ~env.hide_skip,
                          !.items = RefreshList(env.item_state, ~env.hide_skip)]
    /\ UNCHANGED <<enabled, cache, scanfile, snoozeStore, snoozed, pc, idx,
                   force, last, resumed, out>>

StateTargets(field) ==
    { ListedTargets[i] : i \in { j \in 1..MaxListed : env.item_state[j][field] } }

\* ctrl+x: _save_snoozes writes snoozed.json from item_state, then the
\* findings marked in item_state go to the ConfirmScreen
ActionExecute ==
    /\ env.op = "review"
    /\ snoozeStore' = (snoozeStore \ { ListedTargets[i] : i \in 1..MaxListed })
                      \cup StateTargets("snoozed")
    /\ out' = [ kind |-> "execute", persisted |-> snoozeStore',
                confirm |-> StateTargets("marked") ]
    /\ UNCHANGED <<enabled, cache, scanfile, snoozed, pc, idx, force, last,
                   resumed, env>>

InitReview ==
    /\ snoozeStore \in SUBSET { ListedTargets[i] : i \in 1..MaxListed }
    /\ env = Mounted(snoozeStore)
    /\ out = NoOut
    /\ enabled = [ p \in PhaseNames |-> p \in Phases ]
    /\ cache = NoFiles
    /\ scanfile = AbsentReport
    /\ snoozed = {}
    /\ pc = "none"
    /\ idx = 0
    /\ force = FALSE
    /\ last = NoCall
    /\ resumed = NoResume

NextReview ==
    \/ \E i \in 1..MaxListed : ToggleMark(i)
    \/ \E i \in 1..MaxListed : ToggleSnooze(i)
    \/ ToggleHideSkip
    \/ ActionExecute

SpecReview == InitReview /\ [][NextReview]_vars

\* C28: no entry of item_state is both marked and snoozed, and what
\* execute persists as snoozed has no target in common with what it hands
\* to the confirmation step.
C28_NeverMarkedAndSnoozed ==
    env.op = "review"
    => ( /\ \A i \in 1..MaxListed :
               ~(env.item_state[i].marked /\ env.item_state[i].snoozed)
         /\ out.kind = "execute" => out.persisted \cap out.confirm = {} )

---------------------------------------------------------------------------
(* DccScout instances of one interpreter and the objects their configs hold *)

\* most DccScout instances constructed in one interpreter
MaxInstances == 2

\* the keys followed: two whose value is a dict, one whose value is a list
SharedKeys == { "thresholds", "phases", "scan_paths" }
DictKeys == { "thresholds", "phases" }

\* where a value comes from: the literal in DEFAULT_CONFIG, the user's
\* config.yaml, or an assignment made through an instance's config
Origins == { "default", "file", "set" }

\* the content of a value object: of a dict the field config.yaml gives
\* and a field it leaves out, of the list its elements (both times)
Content(given, left) == [ given |-> given, left |-> left ]

\* the object a key of DEFAULT_CONFIG refers to
DefaultObject == 0

\* the module as imported: DEFAULT_CONFIG as written, no instance
Imported ==
    [ op |-> "instances",
      objects |-> [ key \in SharedKeys |->
                      [ o \in 0..MaxInstances |-> Content("default", "default") ] ],
      configs |-> << >> ]

\* _load_config of a new instance: DEFAULT_CONFIG.copy() copies the
\* references; a key config.yaml gives is rebound, for a dict to a new dict
\* {**config[key], **value}, for the list to the value of the file
LoadConfigRefs(given_keys) == [ key \in SharedKeys |-> key \in given_keys ]

Construct(given_keys) ==
    /\ env.op = "instances"
    /\ Len(env.configs) < MaxInstances
    /\ LET self == Len(env.configs) + 1
           refs == [ key \in SharedKeys |->
                       IF LoadConfigRefs(given_keys)[key] THEN self
                       ELSE DefaultObject ]
           objects == [ key \in SharedKeys |->
                          IF refs[key] = self
                          THEN [ env.objects[key] EXCEPT ![self] =
                                    Content("file",
                                        IF key \in DictKeys
                                        THEN env.objects[key][DefaultObject].left
                                        ELSE "file") ]
                          ELSE env.objects[key] ]
       IN  env' = [env EXCEPT !.configs = Append(env.configs, refs),
                              !.objects = objects]
    /\ UNCHANGED <<enabled, cache, scanfile, snoozeStore, snoozed, pc, idx,
                   force, last, resumed, out>>

\* scout.config[key][field] = value, and scout.config["scan_paths"].append:
\* the object the key refers to is changed in place
SetInPlace(i, key, field) ==
    /\ env.op = "instances"
    /\ i \in 1..Len(env.configs)
    /\ key \in DictKeys \/ field = "given"
    /\ env' = [env EXCEPT !.objects[key][env.configs[i][key]] =
                   IF key \in DictKeys THEN [ @ EXCEPT ![field] = "set" ]
                   ELSE Content("set", "set")]
    /\ UNCHANGED <<enabled, cache, scanfile, snoozeStore, snoozed, pc, idx,
                   force, last, resumed, out>>

\* scout.config[key] = value: the key of this instance refers to a new object
Rebind(i, key) ==
    /\ env.op = "instances"
    /\ i \in 1..Len(env.configs)
    /\ env' = [env EXCEPT !.configs[i][key] = i,
                          !.objects[key][i] = Content("set", "set")]
    /\ UNCHANGED <<enabled, cache, scanfile, snoozeStore, snoozed, pc, idx,
                   force, last, resumed, out>>

InitInstances ==
    /\ env = Imported
    /\ out = NoOut
    /\ enabled = [ p \in PhaseNames |-> p \in Phases ]
    /\ cache = NoFiles
    /\ scanfile = AbsentReport
    /\ snoozeStore = {}
    /\ snoozed = {}
    /\ pc = "none"
    /\ idx = 0
    /\ force = FALSE
    /\ last = NoCall
    /\ resumed = NoResume

NextInstances ==
    \/ \E given_keys \in SUBSET SharedKeys : Construct(given_keys)
    \/ \E i \in 1..MaxInstances, key \in SharedKeys, field \in {"given", "left"} :
          SetInPlace(i, key, field)
    \/ \E i \in 1..MaxInstances, key \in SharedKeys : Rebind(i, key)

SpecInstances == InitInstances /\ [][NextInstances]_vars

\* what instance i reads under a key
Reads(i, key) == env.objects[key][env.configs[i][key]]

\* C29: whatever is changed through the configs of the instances, the
\* values of DEFAULT_CONFIG stay as written, and an instance constructed
\* afterwards reads under every key what its config.yaml and the defaults
\* give, nothing an earlier instance has set.
C29_ConfigsNotShared ==
    [][ /\ \A key \in SharedKeys :
              env'.objects[key][DefaultObject] = Content("default", "default")
        /\ Len(env'.configs) > Len(env.configs)
           => \A key \in SharedKeys :
                 LET new == Len(env'.configs)
                     read == env'.objects[key][env'.configs[new][key]]
                 IN  read.given # "set" /\ read.left # "set" ]_vars

---------------------------------------------------------------------------
(* The report of run_all and the configuration *)

\* the findings held by the cache files of the enabled phases
EnabledFindings ==
    UNION { Elements(cache[p].findings) :
              p \in { q \in Phases : enabled[q] /\ HasFile(cache, q) } }

\* C30: every finding of the report run_all writes is a finding of the
\* cache file of an enabled phase.
C30_ReportOfEnabledPhasesOnly ==
    [][ ( pc = "run_all" /\ pc' = "done" )
        => Elements(scanfile'.findings) \subseteq EnabledFindings' ]_vars

====
